---- MODULE Spec2Model ----
(***************************************************************************)
(* A model of the mwrt bytecode interpreter: the constant pool, the heap   *)
(* with its stack frames, the decoder and the execute loop.                *)
(*                                                                         *)
(* Machine words are 32 bits wide (the target on which FRAME_HEADER_WORDS  *)
(* is 3, stack_frame.rs:257).  A word is written as the signed integer     *)
(* with the same bit pattern (the source's `as isize` view), so that every *)
(* word fits the checker's integers; unsigned comparisons go through ULt.  *)
(***************************************************************************)
EXTENDS Integers, Sequences, FiniteSets, TLC

\* ------------------------------------------------------------------ words

\* mem::size_of::<usize>() * 8
MAX_SHIFT == 32
\* mem::size_of::<usize>()
WordBytes == 4
\* isize::MAX and isize::MIN
MaxWord == 2147483647
MinWord == (-MaxWord) - 1

RECURSIVE Pow2(_)
Pow2(n) == IF n = 0 THEN 1 ELSE 2 * Pow2(n - 1)

\* `x as u8`, `x as u16`: the low bits of the pattern
U8(x) == x % 256
U16(x) == x % 65536

\* unsigned comparison of two words
ULt(a, b) == IF (a >= 0) = (b >= 0) THEN a < b ELSE b < 0
ULe(a, b) == a = b \/ ULt(a, b)

\* the word with the bit pattern of the natural number n < 2^32, n given as
\* a sum of two in-range parts
Wrap(a, b) ==
    IF a >= 0 /\ b >= 0
      THEN IF a <= MaxWord - b THEN a + b ELSE (a - MaxWord - 1) + (b - MaxWord - 1)
      ELSE IF a < 0 /\ b < 0
             THEN IF a >= MinWord - b THEN a + b ELSE (a + MaxWord + 1) + (b + MaxWord + 1)
             ELSE a + b

\* wrapping_add, wrapping_sub on words
WAdd(a, b) == Wrap(a, b)
WNeg(a) == IF a = MinWord THEN MinWord ELSE -a
WSub(a, b) == IF b = MinWord THEN Wrap(Wrap(a, MaxWord), 1) ELSE Wrap(a, -b)

\* the unsigned sum a + b does not fit a word (usize `+` overflows)
UAddOverflows(a, b) == ULt(WAdd(a, b), a)

\* 2 * x, wrapping
Dbl(x) == 2 * (x % 1073741824) + (IF (x \div 1073741824) % 2 = 1 THEN MinWord ELSE 0)

\* x << s for 0 <= s < 32
RECURSIVE Shl(_, _)
Shl(x, s) == IF s = 0 THEN x ELSE Shl(Dbl(x), s - 1)

\* x >> 1, zero-filling
LShr1(x) == IF x < 0 THEN (x - MinWord) \div 2 + 1073741824 ELSE x \div 2

\* wrapping_mul: the sum of the products of the operands' bytes, each at its
\* place, the places past the word dropped
RECURSIVE WSum(_)
WSum(terms) == IF terms = << >> THEN 0 ELSE WAdd(Head(terms), WSum(Tail(terms)))
WMul(a, b) ==
    LET x == << a % 256, (a \div 256) % 256, (a \div 65536) % 256, (a \div 16777216) % 256 >>
        y == << b % 256, (b \div 256) % 256, (b \div 65536) % 256, (b \div 16777216) % 256 >>
        term(i, j) == Shl(x[i + 1] * y[j + 1], 8 * (i + j))
    IN WSum(<< term(0, 0), term(0, 1), term(0, 2), term(0, 3), term(1, 0), term(1, 1),
               term(1, 2), term(2, 0), term(2, 1), term(3, 0) >>)

\* bitwise operations on words (two's complement; \div rounds down)
RECURSIVE BitAnd(_, _)
BitAnd(a, b) ==
    IF a = 0 \/ b = 0 THEN 0
    ELSE IF a = -1 THEN b
    ELSE IF b = -1 THEN a
    ELSE (a % 2) * (b % 2) + 2 * BitAnd(a \div 2, b \div 2)

RECURSIVE BitOr(_, _)
BitOr(a, b) ==
    IF a = 0 THEN b
    ELSE IF b = 0 THEN a
    ELSE IF a = -1 \/ b = -1 THEN -1
    ELSE ((a % 2) + (b % 2) - (a % 2) * (b % 2)) + 2 * BitOr(a \div 2, b \div 2)

RECURSIVE BitXor(_, _)
BitXor(a, b) ==
    IF a = 0 THEN b
    ELSE IF b = 0 THEN a
    ELSE IF a = -1 /\ b = -1 THEN 0
    ELSE (((a % 2) + (b % 2)) % 2) + 2 * BitXor(a \div 2, b \div 2)

\* x >> s, sign-filling and zero-filling, for 0 <= s < 32
RECURSIVE AShr(_, _)
AShr(x, s) == IF s = 0 THEN x ELSE AShr(x \div 2, s - 1)
RECURSIVE LShr(_, _)
LShr(x, s) == IF s = 0 THEN x ELSE LShr(LShr1(x), s - 1)

\* ----------------------------------------------------------------- memory

VARIABLES
    pool,       \* Runtime.constant_pool: the bytes of the constant pool
    heap,       \* Runtime.heap: w, the words of the region (globals, frames,
                \* objects); brk, the first word never handed out; spans, the
                \* allocations made, as << first word, words >>
    timer,      \* Runtime.current_time is Some
    now,        \* the clock: the value of the last current_time() call
    build,      \* "debug": overflow checks panic; "release": they wrap
    status,     \* of the one execute call followed: "idle" (not made yet) |
                \* "running" | "returned" | "fault" | "panic" | "ub"
    frame,      \* execute's `frame`: address of the current stack frame
    code,       \* the Code of the current frame (local_count, max_stack, bytecode)
    skip,       \* execute's `skip`
    cycles,     \* execute's `cycles`
    call,       \* the arguments of the execute call in progress
    results,    \* the caller's results slice
    outcome,    \* what execute returned: Ok(count) or Err(code, frame)
    ev          \* what the last step did (history, read by the properties only)

vars == << pool, heap, timer, now, build, status, frame, code, skip,
           cycles, call, results, outcome, ev >>

\* address of the constant pool's first byte (constant_pool.as_ptr())
PoolBase == 8192
\* address of the heap's first block
HeapBase == 4096
\* size of the heap region, in allocator blocks
HeapBlocks == 20
\* words per allocator block (a 3-slot object has size 4)
BlockWords == 4
HeapWords == HeapBlocks * BlockWords
HeapEnd == HeapBase + HeapWords * WordBytes
\* Runtime::new's global_count
GlobalCount == 2
\* the null pointer
Null == 0

PoolLen == Len(pool)

\* address -> index of the heap word holding it
Idx(addr) == (addr - HeapBase) \div WordBytes

\* Heap::is_ptr_inside for an object of `size` bytes
is_ptr_inside(addr, size) ==
    /\ addr >= HeapBase
    /\ addr <= HeapEnd - size

\* the constant pool's byte at an address inside it
PoolByte(addr) == pool[addr - PoolBase + 1]

\* the little-endian word made of four bytes
WordOfBytes(b0, b1, b2, b3) ==
    b0 + 256 * b1 + 65536 * b2 + 16777216 * (IF b3 >= 128 THEN b3 - 256 ELSE b3)

\* the four bytes of a word, least significant first
BytesOfWord(w) ==
    << w % 256, (w \div 256) % 256, (w \div 65536) % 256, (w \div 16777216) % 256 >>

\* ------------------------------------------------------- operation results

\* an operation's result: the heap it leaves, and a value, an error code, a
\* panic of the host, or undefined behaviour
Ok(h, v) == [k |-> "ok", h |-> h, v |-> v, e |-> "none"]
Fail(h, e) == [k |-> "err", h |-> h, v |-> 0, e |-> e]
\* an error that already carries a frame (v)
FailAt(h, e, f) == [k |-> "err", h |-> h, v |-> f, e |-> e]
Panic(h) == [k |-> "panic", h |-> h, v |-> 0, e |-> "none"]
Undefined(h) == [k |-> "ub", h |-> h, v |-> 0, e |-> "none"]

\* `?`: go on with the heap and the value of a result that is Ok
Bind(r, F(_, _)) == IF r.k = "ok" THEN F(r.h, r.v) ELSE r

\* ------------------------------------------------------------ stack frames

\* StackFrame is { up_frame: usize, code_offset: u32, pc: u16, sp: u8, unused1: u8 }
FRAME_HEADER_WORDS == 3

HeaderWord(pc, sp, unused) ==
    pc + 65536 * sp + 16777216 * (IF unused >= 128 THEN unused - 256 ELSE unused)

up_frame(h, f) == h.w[Idx(f)]
code_offset(h, f) == h.w[Idx(f) + 1]
pc(h, f) == h.w[Idx(f) + 2] % 65536
sp(h, f) == (h.w[Idx(f) + 2] \div 65536) % 256
unused1(h, f) == (h.w[Idx(f) + 2] \div 16777216) % 256

\* a store of one heap word
Poke(h, i, v) == [h EXCEPT !.w[i] = v]

SetPc(h, f, v) == Poke(h, Idx(f) + 2, HeaderWord(v, sp(h, f), unused1(h, f)))
SetSp(h, f, v) == Poke(h, Idx(f) + 2, HeaderWord(pc(h, f), v, unused1(h, f)))

\* word index of locals[0] and of stack[0]
LocalsIdx(f) == Idx(f) + FRAME_HEADER_WORDS
StackIdx(f, c) == Idx(f) + FRAME_HEADER_WORDS + c.local_count

\* RuntimeContext::locals
locals(h, f, c) == [i \in 0 .. c.local_count - 1 |-> h.w[LocalsIdx(f) + i]]

\* the words of RuntimeContext::stack(), bottom first
stack(h, f, c) == [i \in 0 .. sp(h, f) - 1 |-> h.w[StackIdx(f, c) + i]]

InHeap(i) == i >= 0 /\ i < HeapWords

\* RuntimeContext::get
get(h, f, c) ==
    LET s == sp(h, f) IN
    IF s < 1 THEN Fail(h, "StackUnderflow")
    ELSE IF ~InHeap(StackIdx(f, c) + s - 1) THEN Undefined(h)
    ELSE Ok(SetSp(h, f, s - 1), h.w[StackIdx(f, c) + s - 1])

\* RuntimeContext::put
put(h, f, c, n) ==
    LET s == sp(h, f) IN
    IF s >= c.max_stack THEN Fail(h, "StackOverflow")
    ELSE Ok(SetSp(Poke(h, StackIdx(f, c) + s, n), f, s + 1), 0)

\* RuntimeContext::get_n: the value is the sequence of the n words, in push
\* order.  The test compares sp with `n as u8`; the slice start .. start + n
\* is then taken from the sp words of stack().
get_n(h, f, c, n) ==
    LET s == sp(h, f)
        start == s - U8(n)
    IN
    IF s < U8(n) THEN Fail(h, "StackUnderflow")
    ELSE IF n # U8(n) THEN Panic(SetSp(h, f, start))
    ELSE IF n > 0 /\ ~InHeap(StackIdx(f, c) + s - 1) THEN Undefined(h)
    ELSE Ok(SetSp(h, f, start), [i \in 1 .. n |-> h.w[StackIdx(f, c) + start + i - 1]])

\* --------------------------------------------------------------- allocator

\* Heap::allocate: the first `bytes` bytes never handed out, rounded up to
\* whole blocks and zeroed; None (k = "err") when the region is exhausted
Allocate(h, bytes) ==
    LET words == ((bytes + BlockWords * WordBytes - 1) \div (BlockWords * WordBytes)) * BlockWords
        first == h.brk
    IN
    IF first + words > HeapWords THEN Fail(h, "OutOfMemory")
    ELSE Ok([w |-> [i \in 0 .. HeapWords - 1 |->
                       IF i >= first /\ i < first + words THEN 0 ELSE h.w[i]],
             brk |-> first + words,
             spans |-> Append(h.spans, << first, words >>)],
            HeapBase + first * WordBytes)

\* ------------------------------------------------------------ constant pool

\* Runtime::is_in_constant_pool_range; `addr + len` is a usize sum
is_in_constant_pool_range(addr, len) ==
    /\ ULe(PoolBase, addr)
    /\ ULe(WAdd(addr, len), PoolBase + PoolLen)

\* ConstantPool::addr_from_offset, ConstantPool::offset_from_addr
addr_from_offset(offset) == WAdd(PoolBase, Shl(offset, 2))
offset_from_addr(addr) == LShr(WSub(addr, PoolBase), 2)

\* the Code value: local_count, max_stack and the bytecode slice, given by
\* the address of its first byte and its length
Code(local_count, max_stack, base, len) ==
    [local_count |-> local_count, max_stack |-> max_stack, base |-> base, len |-> len]

NoCode == Code(0, 0, 0, 0)

\* bytecode[i]
Byte(c, i) == PoolByte(c.base + i)

\* ConstantPool::get_code: the code block at an address of the pool
get_code(h, addr) ==
    IF ~is_in_constant_pool_range(addr, 4) THEN Fail(h, "InvalidAddress")
    ELSE IF PoolByte(addr) > 63 \/ PoolByte(addr + 1) > 63 THEN Fail(h, "InvalidCodeObject")
    ELSE LET len == PoolByte(addr + 2) + 256 * PoolByte(addr + 3) IN
         IF ~is_in_constant_pool_range(addr + 4, len) THEN Fail(h, "InvalidAddress")
         ELSE Ok(h, Code(PoolByte(addr), PoolByte(addr + 1), addr + 4, len))

\* ----------------------------------------------------------------- decoder

\* a decode_uint loop that does not shift the last byte into its place
RECURSIVE decode_uint_loop_low(_, _, _, _)
decode_uint_loop_low(c, index, value, shift) ==
    IF Byte(c, index) >= 128
      THEN LET v == BitOr(value, Shl(Byte(c, index) % 128, shift)) IN
           IF index + 1 >= c.len THEN << >>
           ELSE IF shift + 7 >= MAX_SHIFT THEN << >>
           ELSE decode_uint_loop_low(c, index + 1, v, shift + 7)
      ELSE << BitOr(value, Byte(c, index)), index + 1 >>

\* decode_uint, from the byte at `index` on: << value, new_index >>, or
\* << >> for None.  `value | (x << shift)` with the source's shifts.
RECURSIVE decode_uint_loop(_, _, _, _)
decode_uint_loop(c, index, value, shift) ==
    IF Byte(c, index) >= 128
      THEN LET v == BitOr(value, Shl(Byte(c, index) % 128, shift)) IN
           IF index + 1 >= c.len THEN << >>
           ELSE IF shift + 7 >= MAX_SHIFT THEN << >>
           ELSE decode_uint_loop(c, index + 1, v, shift + 7)
      ELSE << BitOr(value, Shl(Byte(c, index), shift)), index + 1 >>

decode_uint(c, index) ==
    IF index >= c.len THEN << >> ELSE decode_uint_loop(c, index, 0, 0)

\* decode_sint: zig-zag on top of decode_uint; `>>` on isize fills with the sign
decode_sint(c, index) ==
    LET d == decode_uint(c, index) IN
    IF d = << >> THEN << >>
    ELSE << BitXor(AShr(d[1], 1), -(d[1] % 2)), d[2] >>

FIRST_N1_OPCODE == 16
FIRST_N2_OPCODE == 32
LAST_N_OPCODE == 48

Instruction(offset, opcode, n1, n2) ==
    [offset |-> offset, opcode |-> opcode, n1 |-> n1, n2 |-> n2]

\* a decode_next that reads immediates for the assigned opcodes only
decode_next_assigned(h, c, index) ==
    IF index >= c.len THEN Fail(h, "TruncatedCode")
    ELSE LET op == Byte(c, index) IN
    IF op \in 16 .. 28 \/ op = 32
      THEN LET d1 == decode_sint(c, index + 1) IN
           IF d1 = << >> THEN Fail(h, "TruncatedCode")
           ELSE IF op >= FIRST_N2_OPCODE
             THEN LET d2 == decode_sint(c, d1[2]) IN
                  IF d2 = << >> THEN Fail(h, "TruncatedCode")
                  ELSE Ok(h, << Instruction(index, op, d1[1], d2[1]), U16(d2[2]) >>)
             ELSE Ok(h, << Instruction(index, op, d1[1], 0), U16(d1[2]) >>)
      ELSE Ok(h, << Instruction(index, op, 0, 0), U16(index + 1) >>)

\* decode_next: Ok with << instruction, next_pc >>, or TruncatedCode
decode_next(h, c, index) ==
    IF index >= c.len THEN Fail(h, "TruncatedCode")
    ELSE LET op == Byte(c, index) IN
    IF op >= FIRST_N1_OPCODE /\ op < LAST_N_OPCODE
      THEN LET d1 == decode_sint(c, index + 1) IN
           IF d1 = << >> THEN Fail(h, "TruncatedCode")
           ELSE IF op >= FIRST_N2_OPCODE
             THEN LET d2 == decode_sint(c, d1[2]) IN
                  IF d2 = << >> THEN Fail(h, "TruncatedCode")
                  ELSE Ok(h, << Instruction(index, op, d1[1], d2[1]), U16(d2[2]) >>)
             ELSE Ok(h, << Instruction(index, op, d1[1], 0), U16(d1[2]) >>)
      ELSE Ok(h, << Instruction(index, op, 0, 0), U16(index + 1) >>)

\* ------------------------------------------------------ checked arithmetic

\* a usize `+` or `*` that overflows panics in a debug build and wraps in a
\* release build
Checked(overflows, h, v) == IF overflows /\ build = "debug" THEN Panic(h) ELSE Ok(h, v)

\* usize a + b
UAdd(h, a, b) == Checked(UAddOverflows(a, b), h, WAdd(a, b))

\* usize a * size_of::<usize>()
UMulWordBytes(h, a) == Checked(a < 0 \/ a >= 1073741824, h, Shl(a, 2))

\* isize a / b and a % b for b > 0, rounding toward zero
TruncDivPos(a, b) == IF a < 0 /\ a % b # 0 THEN (a \div b) + 1 ELSE a \div b

\* isize a / b, b # 0 and not MinWord / -1
TruncDiv(a, b) ==
    IF b > 0 THEN TruncDivPos(a, b)
    ELSE IF b = MinWord THEN (IF a = MinWord THEN 1 ELSE 0)
    ELSE -TruncDivPos(a, -b)

\* isize a % b, under the same conditions
TruncMod(a, b) == a - TruncDiv(a, b) * b

\* ------------------------------------------------------------ safe pointers

\* the bytes addr .. addr + len really lie inside the constant pool
InPool(addr, len) == addr >= PoolBase /\ len >= 0 /\ addr <= PoolBase + PoolLen - len

\* the byte of the heap at an address inside it
HeapByte(h, addr) == BytesOfWord(h.w[Idx(addr)])[((addr - HeapBase) % WordBytes) + 1]

\* Runtime::is_in_constant_pool for an object of `size` bytes: Ok(TRUE/FALSE)
is_in_constant_pool(h, addr, size) ==
    Checked(UAddOverflows(addr, size), h, is_in_constant_pool_range(addr, size))

\* Runtime::as_safe_constant: Ok("pool") or Ok("heap") when the object may be
\* read there, else InvalidAddress
as_safe_constant(h, addr, size) ==
    Bind(is_in_constant_pool(h, addr, size), LAMBDA h1, inpool:
        IF inpool THEN (IF InPool(addr, size) THEN Ok(h1, "pool") ELSE Undefined(h1))
        ELSE IF is_ptr_inside(addr, size) THEN Ok(h1, "heap")
        ELSE Fail(h1, "InvalidAddress"))

\* Runtime::as_safe_constant_slice
as_safe_constant_slice(h, addr, len) ==
    Bind(is_in_constant_pool(h, addr, len), LAMBDA h1, inpool:
        IF inpool THEN (IF InPool(addr, len) THEN Ok(h1, addr) ELSE Undefined(h1))
        ELSE Fail(h1, "InvalidAddress"))

\* Runtime::as_safe_heap_mut
as_safe_heap_mut(h, addr, size) ==
    IF is_ptr_inside(addr, size) THEN Ok(h, addr) ELSE Fail(h, "InvalidAddress")

\* the word at an aligned address that as_safe_constant accepted
ReadWord(h, where, addr) ==
    IF where = "pool"
      THEN WordOfBytes(PoolByte(addr), PoolByte(addr + 1), PoolByte(addr + 2), PoolByte(addr + 3))
      ELSE h.w[Idx(addr)]

\* the byte at an address that as_safe_constant accepted
ReadByte(h, where, addr) == IF where = "pool" THEN PoolByte(addr) ELSE HeapByte(h, addr)

\* ---------------------------------------------------------------- objects

\* Heap::size_of_ptr: the size in bytes of the allocation holding the address
size_of_ptr(h, addr) ==
    LET hit == {i \in 1 .. Len(h.spans) :
                   Idx(addr) >= h.spans[i][1] /\ Idx(addr) < h.spans[i][1] + h.spans[i][2]}
    IN IF hit = {} THEN 0 ELSE h.spans[CHOOSE i \in hit : TRUE][2] * WordBytes

\* an object_size that also answers for an address of the constant pool,
\* with the words from there to the end of the pool
object_size_anywhere(h, addr) ==
    IF is_ptr_inside(addr, WordBytes) THEN Ok(h, size_of_ptr(h, addr) \div WordBytes)
    ELSE IF InPool(addr, WordBytes) THEN Ok(h, (PoolBase + PoolLen - addr) \div WordBytes)
    ELSE Fail(h, "InvalidAddress")

\* Runtime::object_size
object_size(h, addr) ==
    IF is_ptr_inside(addr, WordBytes) THEN Ok(h, size_of_ptr(h, addr) \div WordBytes)
    ELSE Fail(h, "InvalidAddress")

\* addr + slot * size_of::<usize>()
SlotAddr(h, addr, slot) ==
    Bind(UMulWordBytes(h, slot), LAMBDA h1, off: UAdd(h1, addr, off))

\* Runtime::load_slot
load_slot(h, addr, slot) ==
    Bind(SlotAddr(h, addr, slot), LAMBDA h1, slot_addr:
        IF slot_addr % WordBytes # 0 THEN Fail(h1, "Unaligned")
        ELSE Bind(as_safe_constant(h1, slot_addr, WordBytes), LAMBDA h2, where:
                 Ok(h2, ReadWord(h2, where, slot_addr))))

\* a store_slot that takes the addresses load_slot takes, and leaves a
\* word of the pool as it is
store_slot_anywhere(h, addr, slot, value) ==
    Bind(SlotAddr(h, addr, slot), LAMBDA h1, slot_addr:
        IF slot_addr % WordBytes # 0 THEN Fail(h1, "Unaligned")
        ELSE Bind(as_safe_constant(h1, slot_addr, WordBytes), LAMBDA h2, where:
                 Ok(IF where = "heap" THEN Poke(h2, Idx(slot_addr), value) ELSE h2, 0)))

\* Runtime::store_slot
store_slot(h, addr, slot, value) ==
    Bind(SlotAddr(h, addr, slot), LAMBDA h1, slot_addr:
        IF slot_addr % WordBytes # 0 THEN Fail(h1, "Unaligned")
        ELSE Bind(as_safe_heap_mut(h1, slot_addr, WordBytes), LAMBDA h2, obj:
                 Ok(Poke(h2, Idx(obj), value), 0)))

\* the largest object NEW makes, in slots
MaxSlots == 64

\* obj[i] = fields[i] for the words of a sequence
RECURSIVE Fill(_, _, _)
Fill(h, first, fields) ==
    IF fields = << >> THEN h
    ELSE Fill(Poke(h, first, Head(fields)), first + 1, Tail(fields))

\* a new_object that compares fill with slots before it tests the size
new_object_fillfirst(h, f, c, slots, from_stack) ==
    IF ULt(slots, from_stack) THEN Fail(h, "OutOfBounds")
    ELSE IF ULt(MaxSlots, slots) THEN Fail(h, "InvalidSize")
    ELSE Bind(Allocate(h, slots * WordBytes), LAMBDA h1, obj:
         Bind(get_n(h1, f, c, from_stack), LAMBDA h2, fields:
             Ok(Fill(h2, Idx(obj), fields), obj)))

\* a new_object that fills the slots with the popped words topmost first
new_object_topfirst(h, f, c, slots, from_stack) ==
    IF ULt(MaxSlots, slots) THEN Fail(h, "InvalidSize")
    ELSE IF ULt(slots, from_stack) THEN Fail(h, "OutOfBounds")
    ELSE Bind(Allocate(h, slots * WordBytes), LAMBDA h1, obj:
         Bind(get_n(h1, f, c, from_stack), LAMBDA h2, fields:
             Ok(Fill(h2, Idx(obj), [i \in 1 .. Len(fields) |-> fields[Len(fields) + 1 - i]]),
                obj)))

\* Runtime::new_object
new_object(h, f, c, slots, from_stack) ==
    IF ULt(MaxSlots, slots) THEN Fail(h, "InvalidSize")
    ELSE IF ULt(slots, from_stack) THEN Fail(h, "OutOfBounds")
    ELSE Bind(Allocate(h, slots * WordBytes), LAMBDA h1, obj:
         Bind(get_n(h1, f, c, from_stack), LAMBDA h2, fields:
             Ok(Fill(h2, Idx(obj), fields), obj)))

\* ------------------------------------------------------------- arithmetic

\* Runtime::unary; op is Unary::from_usize(n1)
unary(h, op, n1) ==
    CASE op = 0 -> Ok(h, IF n1 = 0 THEN 1 ELSE 0)
      [] op = 1 -> Checked(n1 = MinWord, h, WNeg(n1))
      [] op = 2 -> Ok(h, (-1) - n1)
      [] OTHER -> Fail(h, "UnknownOpcode")

\* a shift amount outside 0 .. 31 panics in a debug build and is taken
\* modulo 32 in a release build
ShiftBy(h, n2) == Checked(n2 < 0 \/ n2 >= MAX_SHIFT, h, n2 % MAX_SHIFT)

\* Runtime::binary; op is Binary::from_usize(n1)
binary(h, op, n1, n2) ==
    CASE op = 0 -> Ok(h, WAdd(n1, n2))
      [] op = 1 -> Ok(h, WSub(n1, n2))
      [] op = 2 -> Ok(h, WMul(n1, n2))
      [] op = 3 -> IF n2 = 0 \/ (n1 = MinWord /\ n2 = -1) THEN Panic(h)
                   ELSE Ok(h, TruncDiv(n1, n2))
      [] op = 4 -> IF n2 = 0 \/ (n1 = MinWord /\ n2 = -1) THEN Panic(h)
                   ELSE Ok(h, TruncMod(n1, n2))
      [] op = 5 -> Ok(h, IF n1 = n2 THEN 1 ELSE 0)
      [] op = 6 -> Ok(h, IF n1 < n2 THEN 1 ELSE 0)
      [] op = 7 -> Ok(h, IF n1 <= n2 THEN 1 ELSE 0)
      [] op = 8 -> Ok(h, BitOr(n1, n2))
      [] op = 9 -> Ok(h, BitAnd(n1, n2))
      [] op = 10 -> Ok(h, BitXor(n1, n2))
      [] op = 11 -> Bind(ShiftBy(h, n2), LAMBDA h1, s: Ok(h1, Shl(n1, s)))
      [] op = 12 -> Bind(ShiftBy(h, n2), LAMBDA h1, s: Ok(h1, LShr(n1, s)))
      [] op = 13 -> Bind(ShiftBy(h, n2), LAMBDA h1, s: Ok(h1, AShr(n1, s)))
      [] OTHER -> Fail(h, "UnknownOpcode")

\* ------------------------------------------------------------- dispatch

\* enum Opcode
Opcode ==
    [Break |-> 0, Nop |-> 1, Dup |-> 2, Drop |-> 3, Call |-> 4, Return |-> 5,
     New |-> 6, Size |-> 7, LoadSlot |-> 8, StoreSlot |-> 9, If |-> 10,
     Immediate |-> 16, Constant |-> 17, LoadSlotN |-> 18, StoreSlotN |-> 19,
     LoadLocalN |-> 20, StoreLocalN |-> 21, LoadGlobalN |-> 22, StoreGlobalN |-> 23,
     Unary |-> 24, Binary |-> 25, CallN |-> 26, ReturnN |-> 27, Jump |-> 28,
     NewNN |-> 32, Unknown |-> 255]

\* enum Disposition
Continue == [d |-> "Continue", a |-> 0, n |-> 0]
Skip == [d |-> "Skip", a |-> 0, n |-> 0]
Call(offset, count) == [d |-> "Call", a |-> offset, n |-> count]
Return(count) == [d |-> "Return", a |-> 0, n |-> count]
Jump(new_pc) == [d |-> "Jump", a |-> new_pc, n |-> 0]

\* word index of globals[0]: the globals are the heap's first allocation
GlobalsIdx == 0

\* a DUP that puts the word back once
do_DupOnce(h, f, c) ==
    Bind(get(h, f, c), LAMBDA h1, v:
    Bind(put(h1, f, c, v), LAMBDA h2, u1: Ok(h2, Continue)))

\* Runtime::execute_one: the arms of its match, one operator each
do_Dup(h, f, c) ==
    Bind(get(h, f, c), LAMBDA h1, v:
    Bind(put(h1, f, c, v), LAMBDA h2, u1:
    Bind(put(h2, f, c, v), LAMBDA h3, u2: Ok(h3, Continue))))

do_Drop(h, f, c) == Bind(get(h, f, c), LAMBDA h1, v: Ok(h1, Continue))

\* a CALL that pops addr first and count second
do_CallAddrFirst(h, f, c) ==
    Bind(get(h, f, c), LAMBDA h1, offset:
    Bind(get(h1, f, c), LAMBDA h2, count: Ok(h2, Call(offset, count))))

do_Call(h, f, c) ==
    Bind(get(h, f, c), LAMBDA h1, count:
    Bind(get(h1, f, c), LAMBDA h2, offset: Ok(h2, Call(offset, count))))

do_Return(h, f, c) == Bind(get(h, f, c), LAMBDA h1, count: Ok(h1, Return(count)))

do_New(h, f, c) ==
    Bind(get(h, f, c), LAMBDA h1, fill:
    Bind(get(h1, f, c), LAMBDA h2, slots:
    Bind(new_object(h2, f, c, slots, fill), LAMBDA h3, obj:
    Bind(put(h3, f, c, obj), LAMBDA h4, u: Ok(h4, Continue)))))

do_Size(h, f, c) ==
    Bind(get(h, f, c), LAMBDA h1, addr:
    Bind(object_size(h1, addr), LAMBDA h2, size:
    Bind(put(h2, f, c, size), LAMBDA h3, u: Ok(h3, Continue))))

do_LoadSlot(h, f, c) ==
    Bind(get(h, f, c), LAMBDA h1, slot:
    Bind(get(h1, f, c), LAMBDA h2, addr:
    Bind(load_slot(h2, addr, slot), LAMBDA h3, v:
    Bind(put(h3, f, c, v), LAMBDA h4, u: Ok(h4, Continue)))))

do_StoreSlot(h, f, c) ==
    Bind(get(h, f, c), LAMBDA h1, v:
    Bind(get(h1, f, c), LAMBDA h2, slot:
    Bind(get(h2, f, c), LAMBDA h3, addr:
    Bind(store_slot(h3, addr, slot, v), LAMBDA h4, u: Ok(h4, Continue)))))

do_If(h, f, c) ==
    Bind(get(h, f, c), LAMBDA h1, v: Ok(h1, IF v = 0 THEN Skip ELSE Continue))

do_Immediate(h, f, c, n1) == Bind(put(h, f, c, n1), LAMBDA h1, u: Ok(h1, Continue))

do_Constant(h, f, c, n1) ==
    Bind(UAdd(h, PoolBase, Shl(n1, 2)), LAMBDA h1, addr:
    Bind(put(h1, f, c, addr), LAMBDA h2, u: Ok(h2, Continue)))

do_LoadSlotN(h, f, c, n1) ==
    Bind(get(h, f, c), LAMBDA h1, addr:
    Bind(load_slot(h1, addr, n1), LAMBDA h2, v:
    Bind(put(h2, f, c, v), LAMBDA h3, u: Ok(h3, Continue))))

do_StoreSlotN(h, f, c, n1) ==
    Bind(get(h, f, c), LAMBDA h1, v:
    Bind(get(h1, f, c), LAMBDA h2, addr:
    Bind(store_slot(h2, addr, n1, v), LAMBDA h3, u: Ok(h3, Continue))))

do_LoadLocalN(h, f, c, n1) ==
    IF ~ULt(n1, c.local_count) THEN Fail(h, "OutOfBounds")
    ELSE Bind(put(h, f, c, h.w[LocalsIdx(f) + n1]), LAMBDA h1, u: Ok(h1, Continue))

\* a STORE_LOCAL_N that pops the value before it tests the index
do_StoreLocalN_popfirst(h, f, c, n1) ==
    Bind(get(h, f, c), LAMBDA h1, v:
        IF ~ULt(n1, c.local_count) THEN Fail(h1, "OutOfBounds")
        ELSE Ok(Poke(h1, LocalsIdx(f) + n1, v), Continue))

do_StoreLocalN(h, f, c, n1) ==
    IF ~ULt(n1, c.local_count) THEN Fail(h, "OutOfBounds")
    ELSE Bind(get(h, f, c), LAMBDA h1, v: Ok(Poke(h1, LocalsIdx(f) + n1, v), Continue))

do_LoadGlobalN(h, f, c, n1) ==
    IF ~ULt(n1, GlobalCount) THEN Fail(h, "OutOfBounds")
    ELSE Bind(put(h, f, c, h.w[GlobalsIdx + n1]), LAMBDA h1, u: Ok(h1, Continue))

do_StoreGlobalN(h, f, c, n1) ==
    IF ~ULt(n1, GlobalCount) THEN Fail(h, "OutOfBounds")
    ELSE Bind(get(h, f, c), LAMBDA h1, v: Ok(Poke(h1, GlobalsIdx + n1, v), Continue))

do_Unary(h, f, c, n1) ==
    Bind(get(h, f, c), LAMBDA h1, v:
    Bind(unary(h1, n1, v), LAMBDA h2, r:
    Bind(put(h2, f, c, r), LAMBDA h3, u: Ok(h3, Continue))))

do_Binary(h, f, c, n1) ==
    Bind(get(h, f, c), LAMBDA h1, v2:
    Bind(get(h1, f, c), LAMBDA h2, v1:
    Bind(binary(h2, n1, v1, v2), LAMBDA h3, r:
    Bind(put(h3, f, c, r), LAMBDA h4, u: Ok(h4, Continue)))))

do_CallN(h, f, c, n1) == Bind(get(h, f, c), LAMBDA h1, offset: Ok(h1, Call(offset, n1)))

do_NewNN(h, f, c, n1, n2) ==
    Bind(new_object(h, f, c, n1, n2), LAMBDA h1, obj:
    Bind(put(h1, f, c, obj), LAMBDA h2, u: Ok(h2, Continue)))

\* Runtime::execute_one
execute_one(h, f, c, ins) ==
    LET op == ins.opcode IN
    CASE op = Opcode.Break -> Fail(h, "Break")
      [] op = Opcode.Nop -> Ok(h, Continue)
      [] op = Opcode.Dup -> do_Dup(h, f, c)
      [] op = Opcode.Drop -> do_Drop(h, f, c)
      [] op = Opcode.Call -> do_Call(h, f, c)
      [] op = Opcode.Return -> do_Return(h, f, c)
      [] op = Opcode.New -> do_New(h, f, c)
      [] op = Opcode.Size -> do_Size(h, f, c)
      [] op = Opcode.LoadSlot -> do_LoadSlot(h, f, c)
      [] op = Opcode.StoreSlot -> do_StoreSlot(h, f, c)
      [] op = Opcode.If -> do_If(h, f, c)
      [] op = Opcode.Immediate -> do_Immediate(h, f, c, ins.n1)
      [] op = Opcode.Constant -> do_Constant(h, f, c, ins.n1)
      [] op = Opcode.LoadSlotN -> do_LoadSlotN(h, f, c, ins.n1)
      [] op = Opcode.StoreSlotN -> do_StoreSlotN(h, f, c, ins.n1)
      [] op = Opcode.LoadLocalN -> do_LoadLocalN(h, f, c, ins.n1)
      [] op = Opcode.StoreLocalN -> do_StoreLocalN(h, f, c, ins.n1)
      [] op = Opcode.LoadGlobalN -> do_LoadGlobalN(h, f, c, ins.n1)
      [] op = Opcode.StoreGlobalN -> do_StoreGlobalN(h, f, c, ins.n1)
      [] op = Opcode.Unary -> do_Unary(h, f, c, ins.n1)
      [] op = Opcode.Binary -> do_Binary(h, f, c, ins.n1)
      [] op = Opcode.CallN -> do_CallN(h, f, c, ins.n1)
      [] op = Opcode.ReturnN -> Ok(h, Return(ins.n1))
      [] op = Opcode.Jump -> Ok(h, Jump(U16(ins.n1)))
      [] op = Opcode.NewNN -> do_NewNN(h, f, c, ins.n1, ins.n2)
      [] OTHER -> Fail(h, "UnknownOpcode")

\* ---------------------------------------------------------- frame creation

\* a start_locals that stores the arguments that fit before it fails
start_locals_partial(h, f, c, values) ==
    IF Len(values) > c.local_count
      THEN Fail(Fill(h, LocalsIdx(f), SubSeq(values, 1, c.local_count)), "LocalsOverflow")
      ELSE Ok(Fill(h, LocalsIdx(f), values), 0)

\* RuntimeContext::start_locals
start_locals(h, f, c, values) ==
    IF Len(values) > c.local_count THEN Fail(h, "LocalsOverflow")
    ELSE Ok(Fill(h, LocalsIdx(f), values), 0)

\* StackFrame::allocate / RuntimeContext::new: a zeroed frame for the code
\* block, with its code_offset and up_frame set
AllocateFrame(h, offset, c, prev_frame) ==
    Bind(Allocate(h, FRAME_HEADER_WORDS * WordBytes + (c.local_count + c.max_stack) * WordBytes),
         LAMBDA h1, f:
            Ok(Poke(Poke(h1, Idx(f), prev_frame), Idx(f) + 1, U16(LShr(offset, 2))), f))

\* the error an Err result becomes when the frame `f` is attached (to_error)
to_error(r, f) == IF r.k = "err" THEN FailAt(r.h, r.e, f) ELSE r

\* a frame_from_code whose every error carries prev_frame
frame_from_code_caller(h, offset, prev_frame, args) ==
    LET made ==
          to_error(
            Bind(UAdd(h, PoolBase, offset), LAMBDA h1, addr:
            Bind(as_safe_constant(h1, addr, 4), LAMBDA h2, where:
              IF ReadByte(h2, where, addr) > 63 \/ ReadByte(h2, where, addr + 1) > 63
                THEN Fail(h2, "InvalidCodeObject")
                ELSE
            LET c == Code(ReadByte(h2, where, addr), ReadByte(h2, where, addr + 1), addr + 4,
                          ReadByte(h2, where, addr + 2) + 256 * ReadByte(h2, where, addr + 3)) IN
            Bind(UAdd(h2, addr, 4), LAMBDA h3, start:
            Bind(as_safe_constant_slice(h3, start, c.len), LAMBDA h4, bytecode:
            Bind(AllocateFrame(h4, offset, c, prev_frame), LAMBDA h5, f:
                 Ok(h5, [frame |-> f, code |-> c])))))),
            prev_frame)
    IN IF made.k # "ok" THEN made
       ELSE to_error(Bind(start_locals(made.h, made.v.frame, made.v.code, args),
                          LAMBDA h6, u: Ok(h6, made.v)),
                     prev_frame)

\* Runtime::frame_from_code: Ok with the new frame and its Code.  The errors
\* before start_locals carry prev_frame; start_locals' error the new frame.
frame_from_code(h, offset, prev_frame, args) ==
    LET made ==
          to_error(
            Bind(UAdd(h, PoolBase, offset), LAMBDA h1, addr:
            Bind(as_safe_constant(h1, addr, 4), LAMBDA h2, where:
              IF ReadByte(h2, where, addr) > 63 \/ ReadByte(h2, where, addr + 1) > 63
                THEN Fail(h2, "InvalidCodeObject")
                ELSE
            LET c == Code(ReadByte(h2, where, addr), ReadByte(h2, where, addr + 1), addr + 4,
                          ReadByte(h2, where, addr + 2) + 256 * ReadByte(h2, where, addr + 3)) IN
            Bind(UAdd(h2, addr, 4), LAMBDA h3, start:
            Bind(as_safe_constant_slice(h3, start, c.len), LAMBDA h4, bytecode:
            Bind(AllocateFrame(h4, offset, c, prev_frame), LAMBDA h5, f:
                 Ok(h5, [frame |-> f, code |-> c])))))),
            prev_frame)
    IN IF made.k # "ok" THEN made
       ELSE to_error(Bind(start_locals(made.h, made.v.frame, made.v.code, args),
                          LAMBDA h6, u: Ok(h6, made.v)),
                     made.v.frame)

\* RuntimeContext::pop, its second half: the caller's frame as the current
\* one again, with its Code looked up from its code_offset
resume(h, prev) ==
    IF ~is_ptr_inside(prev, FRAME_HEADER_WORDS * WordBytes) THEN Fail(h, "InvalidAddress")
    ELSE Bind(get_code(h, addr_from_offset(code_offset(h, prev))), LAMBDA h1, c:
              Ok(h1, [frame |-> prev, code |-> c]))

\* put_n: repeated put
RECURSIVE put_n(_, _, _, _)
put_n(h, f, c, items) ==
    IF items = << >> THEN Ok(h, 0)
    ELSE Bind(put(h, f, c, Head(items)), LAMBDA h1, u: put_n(h1, f, c, Tail(items)))

\* ------------------------------------------------------------------ inputs

\* a code block of the pool: its four header bytes, its bytecode, and zero
\* bytes up to the next multiple of four
Block(local_count, max_stack, bytecode) ==
    << local_count, max_stack, Len(bytecode) % 256, Len(bytecode) \div 256 >> \o bytecode
      \o [i \in 1 .. (-Len(bytecode)) % 4 |-> 0]

\* a small operand as decode_sint reads it: one zig-zag byte
Z(n) == 2 * n

\* the code blocks of the pool, each at the offset its name ends in
second0 == Block(2, 1, << Opcode.LoadLocalN, Z(1), Opcode.ReturnN, Z(1) >>)
poke8 == Block(2, 2, << Opcode.LoadLocalN, Z(0), Opcode.LoadLocalN, Z(1),
                        Opcode.StoreSlotN, Z(3), Opcode.ReturnN, Z(0) >>)
one20 == Block(1, 1, << Opcode.LoadLocalN, Z(0), Opcode.ReturnN, Z(1) >>)
main28 == Block(3, 5, << Opcode.Immediate, Z(9), Opcode.LoadLocalN, Z(1),
                         Opcode.LoadLocalN, Z(2), Opcode.LoadLocalN, Z(0),
                         Opcode.Immediate, Z(2), Opcode.Call, Opcode.ReturnN, Z(2) >>)
loop48 == Block(0, 0, << Opcode.Jump, Z(0) >>)
blank56 == Block(2, 0, << >>)
cond60 == Block(1, 2, << Opcode.LoadLocalN, Z(0), Opcode.If, Opcode.Immediate, Z(5),
                         Opcode.LoadLocalN, Z(0), Opcode.If >>)
ret72 == Block(2, 4, << Opcode.LoadLocalN, Z(1), Opcode.LoadLocalN, Z(0),
                        Opcode.LoadLocalN, Z(1), Opcode.LoadLocalN, Z(0), Opcode.Return >>)
cut88 == Block(0, 1, << Opcode.Immediate >>)
bad96 == << 64, 0, 0, 0 >>
div100 == Block(2, 2, << Opcode.LoadLocalN, Z(0), Opcode.LoadLocalN, Z(1),
                         Opcode.Binary, Z(3), Opcode.ReturnN, Z(1) >>)
mainN112 == Block(3, 3, << Opcode.Immediate, Z(9), Opcode.LoadLocalN, Z(1),
                           Opcode.LoadLocalN, Z(0), Opcode.CallN, Z(1),
                           Opcode.ReturnN, Z(2) >>)

store128 == Block(3, 3, << Opcode.LoadLocalN, Z(0), Opcode.LoadLocalN, Z(1),
                           Opcode.LoadLocalN, Z(2), Opcode.StoreSlot, Opcode.ReturnN, Z(0) >>)
storeN144 == Block(2, 2, << Opcode.LoadLocalN, Z(0), Opcode.LoadLocalN, Z(1),
                            Opcode.StoreSlotN, Z(1), Opcode.ReturnN, Z(0) >>)
load156 == Block(2, 2, << Opcode.LoadLocalN, Z(0), Opcode.LoadLocalN, Z(1),
                          Opcode.LoadSlot, Opcode.ReturnN, Z(1) >>)
loadN168 == Block(1, 1, << Opcode.LoadLocalN, Z(0), Opcode.LoadSlotN, Z(1), Opcode.ReturnN,
                           Z(1) >>)
make180 == Block(2, 4, << Opcode.Immediate, Z(7), Opcode.Immediate, Z(8),
                          Opcode.LoadLocalN, Z(0), Opcode.LoadLocalN, Z(1), Opcode.New,
                          Opcode.Dup, Opcode.LoadSlotN, Z(1), Opcode.ReturnN, Z(2) >>)
makeNN200 == Block(0, 3, << Opcode.Immediate, Z(7), Opcode.Immediate, Z(8), Opcode.NewNN,
                            Z(3), Z(2), Opcode.Dup, Opcode.LoadSlotN, Z(2), Opcode.ReturnN,
                            Z(2) >>)
full216 == Block(2, 2, << Opcode.NewNN, 128, 1, Z(0), Opcode.Drop, Opcode.LoadLocalN, Z(0),
                          Opcode.LoadLocalN, Z(1), Opcode.New, Opcode.ReturnN, Z(1) >>)
size232 == Block(1, 1, << Opcode.LoadLocalN, Z(0), Opcode.Size, Opcode.ReturnN, Z(1) >>)
newsize244 == Block(1, 2, << Opcode.LoadLocalN, Z(0), Opcode.Immediate, Z(0), Opcode.New,
                             Opcode.Size, Opcode.ReturnN, Z(1) >>)
jfwd256 == Block(0, 1, << Opcode.Jump, Z(4), Opcode.Immediate, Z(1), Opcode.ReturnN, Z(0) >>)
jend268 == Block(0, 1, << Opcode.Immediate, Z(3), Opcode.Jump, Z(4) >>)
jneg276 == Block(0, 1, << Opcode.Immediate, Z(3), Opcode.Jump, 1 >>)
jbig284 == Block(0, 0, << Opcode.Jump, 136, 128, 8, Opcode.ReturnN, Z(0) >>)
jwrap296 == Block(0, 0, << Opcode.Jump, 247, 255, 7, Opcode.ReturnN, Z(0) >>)
llhi308 == Block(1, 1, << Opcode.LoadLocalN, Z(1) >>)
llneg316 == Block(1, 1, << Opcode.LoadLocalN, 1 >>)
slhi324 == Block(1, 1, << Opcode.StoreLocalN, Z(1) >>)
slneg332 == Block(1, 1, << Opcode.StoreLocalN, 1 >>)
lghi340 == Block(0, 1, << Opcode.LoadGlobalN, Z(2) >>)
lgneg348 == Block(0, 1, << Opcode.LoadGlobalN, 1 >>)
sghi356 == Block(0, 1, << Opcode.StoreGlobalN, Z(2) >>)
sgneg364 == Block(0, 1, << Opcode.StoreGlobalN, 1 >>)
round372 == Block(2, 2, << Opcode.LoadLocalN, Z(0), Opcode.StoreLocalN, Z(1),
                           Opcode.LoadLocalN, Z(1), Opcode.StoreGlobalN, Z(1),
                           Opcode.LoadGlobalN, Z(1), Opcode.ReturnN, Z(1) >>)
setg388 == Block(1, 1, << Opcode.LoadLocalN, Z(0), Opcode.StoreGlobalN, Z(1) >>)
getg396 == Block(0, 1, << Opcode.LoadGlobalN, Z(1), Opcode.ReturnN, Z(1) >>)
setgbrk404 == Block(1, 1, << Opcode.LoadLocalN, Z(0), Opcode.StoreGlobalN, Z(1),
                             Opcode.Break >>)
\* a header whose bytecode_len reaches one byte past the end of the pool, and
\* an empty block that ends exactly there
over416 == << 1, 1, 9, 0, 1, 1, 1, 1 >>
brim424 == Block(0, 0, << >>)

Pools == { second0 \o poke8 \o one20 \o main28 \o loop48 \o blank56 \o cond60 \o ret72
             \o cut88 \o bad96 \o div100 \o mainN112
             \o store128 \o storeN144 \o load156 \o loadN168 \o make180 \o makeNN200
             \o full216 \o size232 \o newsize244 \o jfwd256 \o jend268 \o jneg276
             \o jbig284 \o jwrap296 \o llhi308 \o llneg316 \o slhi324 \o slneg332
             \o lghi340 \o lgneg348 \o sghi356 \o sgneg364 \o round372 \o setg388
             \o getg396 \o setgbrk404 \o over416 \o brim424 }

\* the bounds of the model
MaxResults == 2
MaxCycles == 3
MaxTime == 2


\* what the host passes to execute
Offsets == { 0, 4, 8, 20, 28, 48, 56, 60, 72, 88, 96, 100, 112, PoolLen }
ArgLists == { << >>, << 0 >>, << 1 >>, << 2, 7 >>, << 3, 7 >>, << 0, 5, 6 >>,
              << 8, HeapBase + BlockWords * WordBytes, 77 >>, << 20, 5, 6 >>,
              << 28, 28, 0 >>, << 56, 5, 6 >>, << 72, 2, 7 >>, << 72, 3, 0 >> }
ResultLens == 0 .. MaxResults
CycleLimits == 0 .. MaxCycles
Deadlines == 0 .. MaxTime
Stale == -1

\* the address of the first frame a new Runtime allocates (after the globals)
Frame0 == HeapBase + BlockWords * WordBytes

\* what a host without limits passes to execute: the offsets of the blocks
\* that work on slots, objects, locals, globals and jumps, and of the ends
\* of the pool
SlotOffsets == { 96, 112, 128, 144, 156, 168, 180, 200, 216, 232, 244, 256, 268, 276, 284,
                 296, 308, 316, 324, 332, 340, 348, 356, 364, 372, 388, 396, 404,
                 PoolLen - 12, PoolLen - 4, PoolLen - 2, PoolLen, HeapBase - PoolBase }
Addresses == { Null, 3, 9, -4, HeapBase, HeapBase + 2, Frame0, HeapEnd - WordBytes, HeapEnd,
               PoolBase + 2, PoolBase + 8, PoolBase + PoolLen - WordBytes, PoolBase + PoolLen }
SlotArgLists ==
    { << >> } \cup { << a >> : a \in Addresses }
      \cup { << a, n >> : a \in Addresses \ { 3, 9 }, n \in { 0, 1, 2 } }
      \cup { << PoolBase + 8, 1073741824 >>, << PoolBase + 4, -1 >>, << HeapBase + 4, -1 >> }
      \cup { << 3, 2 >>, << 2, 0 >>, << 2, 2 >>, << 2, 3 >>, << 1, 5 >>, << 5, 6 >>, << 64, 0 >>,
             << 64, 3 >>, << 65, 0 >>, << 65, 66 >>, << -1, 0 >> }
      \cup { << a, n, 9 >> : a \in Addresses \ { 3, 9 }, n \in { 0, 1 } }
      \cup { << Frame0, 2, 255 * 65536 >>, << -4, 2, 9 >>, << HeapBase + 4, -1, 9 >>,
             << HeapBase + 36 - PoolBase, 5, 77 >> }

\* ----------------------------------------------------------------- execute

\* what an execute call handed back: nothing yet, Ok(count), Err(code, frame),
\* or no return at all (a panic of the host, undefined behaviour)
NoOutcome == [count |-> 0, code |-> "none", frame |-> Null]
OkOutcome(count) == [count |-> count, code |-> "none", frame |-> Null]
ErrOutcome(e, f) == [count |-> 0, code |-> e, frame |-> f]

\* the fields of `ev`, the record of the last step taken
Event(act, ins, f, n) == [act |-> act, ins |-> ins, frame |-> f, n |-> n]
NoInstruction == Instruction(0, Opcode.Unknown, 0, 0)

\* an end-of-code test that only the root frame passes
AtEndOfRoot == pc(heap, frame) = code.len /\ up_frame(heap, frame) = Null

\* the loop's tests, in the order of the code
AtEnd == pc(heap, frame) = code.len
Timed == call.deadline # 0 /\ timer
Counted == call.max_cycles # 0

\* the values the timer may hand back: never less than the last one
Ticks == { t \in now .. now + 1 : t <= MaxTime }

\* the values of the clock after the deadline test of this iteration, and
\* whether the test ends the call
Reads == IF Timed THEN Ticks ELSE {now}

\* a deadline test that gives way to the cycle test when both limits are hit
ExpiredUnlessOutOfCycles(t) ==
    Timed /\ t >= call.deadline /\ ~(Counted /\ cycles + 1 > call.max_cycles)

Expired(t) == Timed /\ t >= call.deadline

\* a counter that the skipped instruction does not advance
CountUnlessSkipping == IF Counted /\ ~skip THEN cycles + 1 ELSE cycles

\* `cycles += 1` when a cycle limit was given
Count == IF Counted THEN cycles + 1 ELSE cycles

\* the call ends without a value: Err, a panic, or undefined behaviour
Stop(r, f) ==
    /\ heap' = r.h
    /\ status' = CASE r.k = "err" -> "fault" [] r.k = "panic" -> "panic" [] OTHER -> "ub"
    /\ outcome' = IF r.k = "err" THEN ErrOutcome(r.e, f) ELSE NoOutcome

\* the same, inside the loop
Halted(r, f) == Stop(r, f) /\ UNCHANGED << frame, code, skip, results >>

\* the loop's state after an iteration that goes on
Goes(h, f, c, sk) ==
    /\ heap' = h
    /\ frame' = f
    /\ code' = c
    /\ skip' = sk
    /\ UNCHANGED << status, outcome, results >>

\* Runtime::execute, up to the loop, called by a host whose Runtime is in one
\* of the states `from` and that draws its arguments from the given sets
ExecuteWith(from, offsets, arglists, lens, limits, deadlines) ==
    /\ status \in from
    /\ \E offset \in offsets, args \in arglists :
         LET r == frame_from_code(heap, offset, Null, args) IN
         \E len \in lens, max_cycles \in limits, deadline \in deadlines :
           /\ call' = [offset |-> offset, args |-> args,
                       max_cycles |-> max_cycles, deadline |-> deadline]
           /\ results' = [i \in 1 .. len |-> Stale]
           /\ cycles' = 0
           /\ skip' = FALSE
           /\ ev' = Event("Execute", NoInstruction, Null, 0)
           /\ IF r.k = "ok"
                THEN /\ heap' = r.h
                     /\ frame' = r.v.frame
                     /\ code' = r.v.code
                     /\ status' = "running"
                     /\ outcome' = NoOutcome
                ELSE /\ Stop(r, r.v)
                     /\ UNCHANGED << frame, code >>
           /\ UNCHANGED << pool, timer, now, build >>

\* the one call of a host that sets limits
Execute == ExecuteWith({"idle"}, Offsets, ArgLists, ResultLens, CycleLimits, Deadlines)

\* pc at the end of the bytecode: Ok(0)
FallOff ==
    /\ status' = "returned"
    /\ outcome' = OkOutcome(0)
    /\ ev' = Event("FallOff", NoInstruction, frame, 0)
    /\ UNCHANGED << heap, now, frame, code, skip, cycles, results >>

\* the timer is read and is at or past the deadline
TimeExceeded(t) ==
    /\ now' = t
    /\ status' = "fault"
    /\ outcome' = ErrOutcome("TimeExceeded", frame)
    /\ ev' = Event("TimeExceeded", NoInstruction, frame, 0)
    /\ UNCHANGED << heap, frame, code, skip, cycles, results >>

\* the counter goes past the cycle limit
CyclesExceeded ==
    /\ status' = "fault"
    /\ outcome' = ErrOutcome("CyclesExceeded", frame)
    /\ ev' = Event("CyclesExceeded", NoInstruction, frame, 0)
    /\ UNCHANGED << heap, frame, code, skip, results >>

\* decode_next fails
Truncated(decoded) ==
    /\ Halted(decoded, frame)
    /\ ev' = Event("Truncated", NoInstruction, frame, 0)

\* a skip that passes over the opcode byte only
SkippedOpcodeOnly(instruction, next_pc) ==
    /\ Goes(SetPc(heap, frame, instruction.offset + 1), frame, code, FALSE)
    /\ ev' = Event("Skipped", instruction, frame, next_pc)

\* a skip that still raises the Break and UnknownOpcode of the instruction it
\* passes over
SkippedRaising(instruction, next_pc) ==
    /\ ev' = Event("Skipped", instruction, frame, next_pc)
    /\ IF instruction.opcode = Opcode.Break
         THEN Halted(FailAt(heap, "Break", frame), frame)
         ELSE IF instruction.opcode = Opcode.Unknown
           THEN Halted(FailAt(heap, "UnknownOpcode", frame), frame)
           ELSE Goes(SetPc(heap, frame, next_pc), frame, code, FALSE)

\* the skip flag is set: the instruction is passed over
Skipped(instruction, next_pc) ==
    /\ Goes(SetPc(heap, frame, next_pc), frame, code, FALSE)
    /\ ev' = Event("Skipped", instruction, frame, next_pc)

\* execute_one fails
Faulted(done) == Halted(done, frame)

\* a Continue that moves pc past the opcode byte only
ContinuedOpcodeOnly(h, next_pc) ==
    Goes(SetPc(h, frame, pc(heap, frame) + 1), frame, code, FALSE)

\* Disposition::Continue
Continued(h, next_pc) == Goes(SetPc(h, frame, next_pc), frame, code, FALSE)

\* Disposition::Skip
SkipNext(h, next_pc) == Goes(SetPc(h, frame, next_pc), frame, code, TRUE)

\* Disposition::Call
Called(h, next_pc, code_index, count) ==
    LET args == get_n(SetPc(h, frame, next_pc), frame, code, count)
        made == IF args.k = "ok"
                  THEN frame_from_code(args.h, code_index, frame, args.v)
                  ELSE to_error(args, frame)
    IN IF made.k = "ok"
         THEN Goes(made.h, made.v.frame, made.v.code, FALSE)
         ELSE Halted(made, made.v)

\* a copy that hands the values over topmost first
copy_results_reversed(into, stack_results, count) ==
    LET n == IF count < Len(into) THEN count ELSE Len(into) IN
    [i \in 1 .. Len(into) |-> IF i <= n THEN stack_results[count + 1 - i] ELSE into[i]]

\* the root frame returns: `for i in 0 .. n { results[i] = stack_results[i] }`
copy_results(into, stack_results, count) ==
    LET n == IF count < Len(into) THEN count ELSE Len(into) IN
    [i \in 1 .. Len(into) |-> IF i <= n THEN stack_results[i] ELSE into[i]]

\* a count of the values that fitted into results
delivered_count(into, count) == IF count < Len(into) THEN count ELSE Len(into)

\* the root frame returns: `return Ok(count)`
returned_count(into, count) == count

\* a return that gives the returning frame's blocks back to the allocator
\* when they are the last ones handed out
ReturnedFreeing(h, count) ==
    LET stack_results == get_n(h, frame, code, count)
        previous == up_frame(stack_results.h, frame)
        poked == Poke(stack_results.h, Idx(frame), Null)
        last == Len(poked.spans)
        taken == IF last > 0 /\ poked.spans[last][1] = Idx(frame)
                   THEN [poked EXCEPT !.brk = Idx(frame),
                                      !.spans = SubSeq(poked.spans, 1, last - 1)]
                   ELSE poked
    IN
    IF stack_results.k # "ok" THEN Halted(stack_results, frame)
    ELSE IF previous = Null
      THEN /\ results' = copy_results(results, stack_results.v, count)
           /\ heap' = taken
           /\ status' = "returned"
           /\ outcome' = OkOutcome(returned_count(results, count))
           /\ UNCHANGED << frame, code, skip >>
      ELSE LET back == resume(taken, previous)
               put_back == IF back.k = "ok"
                             THEN put_n(back.h, back.v.frame, back.v.code, stack_results.v)
                             ELSE back
           IN IF put_back.k = "ok"
                THEN Goes(put_back.h, previous, back.v.code, FALSE)
                ELSE Halted(put_back, previous)

\* a return that copies to `results` from every frame, not the root alone
ReturnedCopying(h, count) ==
    LET stack_results == get_n(h, frame, code, count)
        previous == up_frame(stack_results.h, frame)
        taken == Poke(stack_results.h, Idx(frame), Null)
    IN
    IF stack_results.k # "ok" THEN Halted(stack_results, frame)
    ELSE IF previous = Null
      THEN /\ results' = copy_results(results, stack_results.v, count)
           /\ heap' = taken
           /\ status' = "returned"
           /\ outcome' = OkOutcome(returned_count(results, count))
           /\ UNCHANGED << frame, code, skip >>
      ELSE LET back == resume(taken, previous)
               put_back == IF back.k = "ok"
                             THEN put_n(back.h, back.v.frame, back.v.code, stack_results.v)
                             ELSE back
           IN /\ results' = copy_results(results, stack_results.v, count)
              /\ IF put_back.k = "ok"
                   THEN /\ heap' = put_back.h
                        /\ frame' = previous
                        /\ code' = back.v.code
                        /\ skip' = FALSE
                        /\ UNCHANGED << status, outcome >>
                   ELSE Stop(put_back, previous) /\ UNCHANGED << frame, code, skip >>

\* Disposition::Return
Returned(h, count) ==
    LET stack_results == get_n(h, frame, code, count)
        previous == up_frame(stack_results.h, frame)
        taken == Poke(stack_results.h, Idx(frame), Null)
    IN
    IF stack_results.k # "ok" THEN Halted(stack_results, frame)
    ELSE IF previous = Null
      THEN /\ results' = copy_results(results, stack_results.v, count)
           /\ heap' = taken
           /\ status' = "returned"
           /\ outcome' = OkOutcome(returned_count(results, count))
           /\ UNCHANGED << frame, code, skip >>
      ELSE LET back == resume(taken, previous)
               put_back == IF back.k = "ok"
                             THEN put_n(back.h, back.v.frame, back.v.code, stack_results.v)
                             ELSE back
           IN IF put_back.k = "ok"
                THEN Goes(put_back.h, previous, back.v.code, FALSE)
                ELSE Halted(put_back, previous)

\* Disposition::Jump
Jumped(h, new_pc) ==
    IF new_pc >= code.len
      THEN Halted(Fail(h, "OutOfBounds"), frame)
      ELSE Goes(SetPc(h, frame, new_pc), frame, code, FALSE)

\* a dispatch that moves pc past the instruction before its handler runs
DispatchAdvanced(instruction, next_pc) ==
    LET done == execute_one(SetPc(heap, frame, next_pc), frame, code, instruction)
        d == IF done.k = "ok" THEN done.v ELSE [d |-> "Faulted", a |-> 0, n |-> 0]
    IN
    /\ ev' = Event(d.d, instruction, frame, next_pc)
    /\ CASE d.d = "Faulted" -> Faulted(done)
         [] d.d = "Continue" -> Continued(done.h, next_pc)
         [] d.d = "Skip" -> SkipNext(done.h, next_pc)
         [] d.d = "Call" -> Called(done.h, next_pc, d.a, d.n)
         [] d.d = "Return" -> Returned(done.h, d.n)
         [] d.d = "Jump" -> Jumped(done.h, d.a)

\* the match on execute_one's result
Dispatch(instruction, next_pc) ==
    LET done == execute_one(heap, frame, code, instruction)
        d == IF done.k = "ok" THEN done.v ELSE [d |-> "Faulted", a |-> 0, n |-> 0]
    IN
    /\ ev' = Event(d.d, instruction, frame, next_pc)
    /\ CASE d.d = "Faulted" -> Faulted(done)
         [] d.d = "Continue" -> Continued(done.h, next_pc)
         [] d.d = "Skip" -> SkipNext(done.h, next_pc)
         [] d.d = "Call" -> Called(done.h, next_pc, d.a, d.n)
         [] d.d = "Return" -> Returned(done.h, d.n)
         [] d.d = "Jump" -> Jumped(done.h, d.a)

\* one iteration of the loop of Runtime::execute
Step ==
    /\ status = "running"
    /\ UNCHANGED << pool, timer, build, call >>
    /\ IF AtEnd THEN FallOff /\ UNCHANGED cycles
       ELSE \E t \in Reads :
         IF Expired(t) THEN TimeExceeded(t)
         ELSE /\ now' = t
              /\ cycles' = Count
              /\ IF Counted /\ Count > call.max_cycles THEN CyclesExceeded
                 ELSE LET decoded == decode_next(heap, code, pc(heap, frame)) IN
                      IF decoded.k # "ok" THEN Truncated(decoded)
                      ELSE IF skip THEN Skipped(decoded.v[1], decoded.v[2])
                      ELSE Dispatch(decoded.v[1], decoded.v[2])

\* -------------------------------------------------------------------- model

\* Runtime::new: the heap with the globals allocated, nothing run yet
Init ==
    /\ pool \in Pools
    /\ heap = Allocate([w |-> [i \in 0 .. HeapWords - 1 |-> 0], brk |-> 0, spans |-> << >>],
                       GlobalCount * WordBytes).h
    /\ timer \in BOOLEAN
    /\ now \in IF timer THEN 0 .. 1 ELSE {0}
    /\ build \in {"debug", "release"}
    /\ status = "idle"
    /\ frame = Null
    /\ code = NoCode
    /\ skip = FALSE
    /\ cycles = 0
    /\ call = [offset |-> 0, args |-> << >>, max_cycles |-> 0, deadline |-> 0]
    /\ results = << >>
    /\ outcome = NoOutcome
    /\ ev = Event("Init", NoInstruction, Null, 0)

Next ==
    \/ Execute
    \/ Step

Spec == Init /\ [][Next]_vars

\* a host that calls execute once, without a cycle limit and without a
\* deadline, on the programs that work on slots, objects, locals and globals
ExecuteUnlimited ==
    ExecuteWith({"idle"}, SlotOffsets, SlotArgLists, {MaxResults}, {0}, {0})

InitUnlimited == Init /\ ~timer

NextUnlimited ==
    \/ ExecuteUnlimited
    \/ Step

SpecUnlimited == InitUnlimited /\ [][NextUnlimited]_vars

\* a host that calls execute again and again on the same Runtime, after a
\* call has returned or failed, as long as at most MaxBusy blocks of the heap
\* are in use (nothing is ever freed)
MaxBusy == 5
AgainOffsets == { 128, 180, 388, 396, 404 }
AgainArgLists == { << >>, << 5 >>, << 3, 2 >>, << HeapBase, 1, 9 >> }
ExecuteAgain ==
    /\ heap.brk <= MaxBusy * BlockWords
    /\ ExecuteWith({"idle", "returned", "fault"}, AgainOffsets, AgainArgLists,
                   {MaxResults}, {0}, {0})

NextRepeated ==
    \/ ExecuteAgain
    \/ Step

SpecRepeated == InitUnlimited /\ [][NextRepeated]_vars

\* ------------------------------------------------------------------ claims

\* a step of the loop that got as far as decode_next
Decoding == {"Truncated", "Skipped", "Faulted", "Continue", "Skip", "Call", "Return", "Jump"}

\* C1: with max_cycles = N, every iteration that reaches the decoder (one
\* that only discards a skipped instruction too) first adds one to the
\* counter, which started at 0 and stays <= N there, so at most N
\* instructions are decoded over all frames; the iteration after the N-th
\* fails CyclesExceeded with the frame that was current and nothing of the
\* heap (pc and sp of the frame with it) changed; without max_cycles the
\* counter never moves and CyclesExceeded never occurs.
C1_CycleLimit ==
    [][status = "running" =>
         /\ call.max_cycles = 0 => cycles' = cycles /\ outcome'.code # "CyclesExceeded"
         /\ call.max_cycles # 0 /\ ev'.act \in Decoding =>
              cycles' = cycles + 1 /\ cycles' <= call.max_cycles
         /\ call.max_cycles # 0 /\ cycles = call.max_cycles
              /\ pc(heap, frame) # code.len /\ outcome'.code # "TimeExceeded" =>
              /\ status' = "fault"
              /\ outcome' = ErrOutcome("CyclesExceeded", frame)
              /\ heap' = heap
              /\ frame' = frame
         /\ outcome'.code = "CyclesExceeded" => cycles = call.max_cycles]_vars

\* C1's case: the limit of 2 is hit while a skipped instruction, the second
\* one counted, is yet to be passed over
C1_Witness ==
    /\ outcome.code = "CyclesExceeded"
    /\ call.max_cycles = 2
    /\ cycles = 3
    /\ skip
    /\ pc(heap, frame) = 3

\* C2: an execute call with max_cycles set ends, by returning a count or a
\* fault, within max_cycles + 1 iterations: every iteration either goes on
\* with the counter one higher and still <= max_cycles, or is the last one
\* and returns Ok or Err.
C2_CapTerminates ==
    [][status = "running" /\ call.max_cycles # 0 =>
         \/ status' = "running" /\ cycles' = cycles + 1 /\ cycles' <= call.max_cycles
         \/ status' \in {"returned", "fault"}]_vars

\* C3: with a deadline and a timer, an iteration that is not at the end of
\* the code reads the timer before anything else, and a value >= deadline
\* ends the call with TimeExceeded and the current frame, the cycle counter
\* not yet touched, so TimeExceeded wins when both limits are hit; without a
\* timer (or without a deadline) the clock is not read and TimeExceeded never
\* occurs.
C3_Deadline ==
    [][status = "running" =>
         /\ timer /\ call.deadline # 0 /\ pc(heap, frame) # code.len
              /\ now' >= call.deadline =>
              /\ status' = "fault"
              /\ outcome' = ErrOutcome("TimeExceeded", frame)
              /\ heap' = heap
              /\ cycles' = cycles
         /\ outcome'.code = "TimeExceeded" =>
              timer /\ call.deadline # 0 /\ now' >= call.deadline
         /\ ~timer \/ call.deadline = 0 => now' = now]_vars

\* C3's case: the deadline passes in the iteration in which the cycle limit
\* would have been passed too
C3_Witness ==
    /\ outcome.code = "TimeExceeded"
    /\ call.max_cycles # 0
    /\ cycles = call.max_cycles
    /\ now >= call.deadline

\* C4: an iteration that finds pc = bytecode_len, in the root frame or in a
\* callee's, ends the call at once with Ok(0): the timer is not read, the
\* counter not advanced, nothing is written to results or to the heap, and
\* the caller's frame is not made current again.
C4_FallOff ==
    [][status = "running" /\ pc(heap, frame) = code.len =>
         /\ status' = "returned"
         /\ outcome'.count = 0 /\ outcome'.code = "none"
         /\ results' = results
         /\ heap' = heap
         /\ frame' = frame
         /\ now' = now
         /\ cycles' = cycles]_vars

\* C4's case: a zero-length code block returned 0 although the clock was
\* already at the deadline and max_cycles was 1
C4_Witness ==
    /\ status = "returned"
    /\ ev.act = "FallOff"
    /\ code.len = 0
    /\ timer /\ call.deadline # 0 /\ now >= call.deadline
    /\ call.max_cycles = 1
    /\ outcome.count = 0
    /\ Len(results) = 2 /\ results[1] = Stale /\ results[2] = Stale

\* the offset after the varint that starts at offset i, and after the whole
\* instruction that starts there (opcode byte and its one or two operands)
RECURSIVE PastVarint(_, _)
PastVarint(c, i) == IF Byte(c, i) >= 128 THEN PastVarint(c, i + 1) ELSE i + 1
PastInstruction(c, i) ==
    IF Byte(c, i) \in FIRST_N1_OPCODE .. FIRST_N2_OPCODE - 1 THEN PastVarint(c, i + 1)
    ELSE IF Byte(c, i) \in FIRST_N2_OPCODE .. LAST_N_OPCODE - 1
      THEN PastVarint(c, PastVarint(c, i + 1))
    ELSE i + 1

\* the heaps differ at most in pc and sp of frame f
SameButPcSp(h1, h2, f) ==
    /\ h1.brk = h2.brk
    /\ h1.spans = h2.spans
    /\ \A i \in 0 .. HeapWords - 1 : i # Idx(f) + 2 => h1.w[i] = h2.w[i]
    /\ code_offset(h1, f) = code_offset(h2, f)
    /\ unused1(h1, f) = unused1(h2, f)

\* C5: IF pops one word and nothing else; on a non-zero word the skip flag
\* stays clear, on zero it is set; an iteration that finds the flag set and
\* decodes an instruction clears the flag and moves pc of the same frame past
\* the whole instruction, changing nothing else (sp, stack, locals, globals,
\* heap, frame chain), so the instruction after it is dispatched; and the
\* flag is clear whenever another frame becomes current.
C5_If ==
    [][/\ status = "running" /\ ev'.act \in {"Skip", "Continue"}
            /\ ev'.ins.opcode = Opcode.If =>
            LET s == sp(heap, frame)
                top == heap.w[StackIdx(frame, code) + s - 1]
            IN /\ s >= 1
               /\ frame' = frame /\ status' = "running"
               /\ SameButPcSp(heap, heap', frame)
               /\ sp(heap', frame) = s - 1
               /\ pc(heap', frame) = pc(heap, frame) + 1
               /\ skip' = (top = 0)
               /\ ev'.act = IF top = 0 THEN "Skip" ELSE "Continue"
       /\ status = "running" /\ skip /\ ev'.act \in Decoding \ {"Truncated"} =>
            /\ ev'.act = "Skipped"
            /\ ~skip'
            /\ frame' = frame /\ status' = "running"
            /\ SameButPcSp(heap, heap', frame)
            /\ sp(heap', frame) = sp(heap, frame)
            /\ pc(heap', frame) = PastInstruction(code, pc(heap, frame))
            /\ results' = results
       /\ status = "running" /\ ~skip /\ ev'.act \in Decoding => ev'.act # "Skipped"
       /\ frame' # frame => ~skip /\ ~skip']_vars

\* C5's case: a zero was popped by IF and the two-byte IMMEDIATE after it
\* was passed over, leaving the stack empty
C5_Witness ==
    /\ ev.act = "Skipped"
    /\ ev.ins.opcode = Opcode.Immediate
    /\ pc(heap, frame) = ev.ins.offset + 2
    /\ sp(heap, frame) = 0
    /\ ~skip

\* the count of a RETURN (the popped top of stack) or RETURN_N (n1) about to
\* be dispatched in frame f, and the stack depth once the count is popped
ReturnCount(h, f, c, ins) ==
    IF ins.opcode = Opcode.ReturnN THEN ins.n1 ELSE h.w[StackIdx(f, c) + sp(h, f) - 1]
ReturnDepth(h, f, ins) == IF ins.opcode = Opcode.ReturnN THEN sp(h, f) ELSE sp(h, f) - 1

\* C6: RETURN or RETURN_N with count k in the root frame, with at least k
\* words on the stack, ends the call with Ok(k); results[i] is the i-th of
\* the k topmost words, deepest first, for i < min(k, results.len()), and
\* every other slot of results keeps its value.
C6_RootReturn ==
    [][status = "running" /\ ev'.act = "Return" /\ up_frame(heap, frame) = Null =>
         LET k == ReturnCount(heap, frame, code, ev'.ins)
             d == ReturnDepth(heap, frame, ev'.ins)
         IN d >= 0 /\ 0 <= k /\ k <= d =>
              /\ status' = "returned"
              /\ outcome'.count = k /\ outcome'.code = "none"
              /\ Len(results') = Len(results)
              /\ \A i \in 1 .. Len(results) :
                   results'[i] = IF i <= k
                                   THEN heap.w[StackIdx(frame, code) + d - k + i - 1]
                                   ELSE results[i]]_vars

\* C6's case: three values returned in push order into a results of two
C6_Witness ==
    /\ status = "returned"
    /\ ev.act = "Return"
    /\ outcome.count = 3
    /\ results = << 7, 3 >>

\* C7 as claimed: the count a root RETURN hands back is the number of values
\* delivered, min(k, results.len()), and so never exceeds results.len().
C7_CountIsDelivered ==
    [][status = "running" /\ ev'.act = "Return" /\ up_frame(heap, frame) = Null =>
         LET k == ReturnCount(heap, frame, code, ev'.ins)
             d == ReturnDepth(heap, frame, ev'.ins)
         IN d >= 0 /\ 0 <= k /\ k <= d =>
              /\ outcome'.count = (IF k < Len(results) THEN k ELSE Len(results))
              /\ outcome'.count <= Len(results)]_vars

\* C7 amended: the count a root RETURN hands back is always the declared
\* count k; only min(k, results.len()) values are written, so the count is
\* larger than results.len() exactly when results is shorter than k.
C7_CountIsDeclared ==
    [][status = "running" /\ ev'.act = "Return" /\ up_frame(heap, frame) = Null =>
         LET k == ReturnCount(heap, frame, code, ev'.ins)
             d == ReturnDepth(heap, frame, ev'.ins)
         IN d >= 0 /\ 0 <= k /\ k <= d =>
              /\ outcome'.count = k
              /\ (outcome'.count > Len(results')) = (Len(results) < k)
              /\ \A i \in 1 .. Len(results) :
                   IF i <= k
                     THEN results'[i] = heap.w[StackIdx(frame, code) + d - k + i - 1]
                     ELSE results'[i] = results[i]]_vars

\* C7's case: two values declared, one slot in results: 2 is returned
C7_Witness ==
    /\ status = "returned"
    /\ ev.act = "Return"
    /\ Len(results) = 1
    /\ results[1] # Stale
    /\ outcome.count = 2

\* the frames on the caller chain that starts at frame f
RECURSIVE Callers(_, _, _)
Callers(h, f, fuel) ==
    IF f = Null \/ fuel = 0 \/ ~is_ptr_inside(f, FRAME_HEADER_WORDS * WordBytes) THEN {}
    ELSE {f} \cup Callers(h, up_frame(h, f), fuel - 1)

\* the Code of a frame that is not the current one, from its code_offset
CodeOf(h, f) == get_code(h, addr_from_offset(code_offset(h, f))).v

\* frame f has in h2 the header, the locals and the stack words below sp
\* that it has in h1
FrameSame(h1, h2, f) ==
    \A i \in Idx(f) .. StackIdx(f, CodeOf(h1, f)) + sp(h1, f) - 1 :
      InHeap(i) => h2.w[i] = h1.w[i]

\* C8: while a callee runs, the frames of its callers keep their header,
\* locals and stack; and when the callee returns k values to its caller, the
\* caller becomes current with its pc (the offset after the CALL), its
\* locals and the words already on its stack unchanged, the k values on top
\* in the callee's push order and sp higher by k -- or, when the caller's
\* stack has fewer than k free slots, the call fails StackOverflow.
C8_CallReturn ==
    [][status = "running" =>
         /\ ev'.act # "Return" =>
              \A g \in Callers(heap, up_frame(heap, frame), HeapBlocks) :
                FrameSame(heap, heap', g)
         /\ ev'.act = "Return" /\ up_frame(heap, frame) # Null =>
              LET g == up_frame(heap, frame)
                  k == ReturnCount(heap, frame, code, ev'.ins)
                  d == ReturnDepth(heap, frame, ev'.ins)
                  s == sp(heap, g)
              IN d >= 0 /\ 0 <= k /\ k <= d =>
                   IF s + k <= CodeOf(heap, g).max_stack
                     THEN /\ status' = "running"
                          /\ frame' = g
                          /\ code' = CodeOf(heap, g)
                          /\ pc(heap', g) = pc(heap, g)
                          /\ sp(heap', g) = s + k
                          /\ \A i \in Idx(g) .. StackIdx(g, code') + s - 1 :
                               i # Idx(g) + 2 => heap'.w[i] = heap.w[i]
                          /\ \A i \in 1 .. k :
                               heap'.w[StackIdx(g, code') + s + i - 1]
                                 = heap.w[StackIdx(frame, code) + d - k + i - 1]
                          /\ \A a \in Callers(heap, up_frame(heap, g), HeapBlocks) :
                               FrameSame(heap, heap', a)
                     ELSE status' = "fault" /\ outcome'.code = "StackOverflow"]_vars

C10_StartLocals ==
    [][ev'.act \in {"Execute", "Call"} /\ heap'.brk # heap.brk =>
         LET root == ev'.act = "Execute"
             isN == ev'.ins.opcode = Opcode.CallN
             s == IF root THEN 0 ELSE sp(heap, frame)
             base == IF root THEN 0 ELSE StackIdx(frame, code)
             count == IF root THEN Len(call'.args)
                      ELSE IF isN THEN ev'.ins.n1 ELSE heap.w[base + s - 1]
             addr == IF root THEN call'.offset
                     ELSE IF isN THEN heap.w[base + s - 1] ELSE heap.w[base + s - 2]
             d == IF isN THEN s - 1 ELSE s - 2
             arg(i) == IF root THEN call'.args[i + 1] ELSE heap.w[base + d - count + i]
             local_count == PoolByte(PoolBase + addr)
             new == HeapBase + heap.brk * WordBytes
         IN IF count > local_count
              THEN /\ status' = "fault"
                   /\ outcome'.code = "LocalsOverflow"
                   /\ \A i \in 0 .. local_count - 1 : heap'.w[LocalsIdx(new) + i] = 0
              ELSE /\ status' = "running"
                   /\ frame' = new
                   /\ code'.local_count = local_count
                   /\ \A i \in 0 .. local_count - 1 :
                        heap'.w[LocalsIdx(new) + i] = IF i < count THEN arg(i) ELSE 0]_vars

\* C10's case: a CALL with two arguments of a block with one local
C10_Witness ==
    /\ status = "fault"
    /\ outcome.code = "LocalsOverflow"
    /\ ev.act = "Call"
    /\ ev.ins.opcode = Opcode.Call

\* the operands of the call made by the step: the offset and the number of
\* arguments handed to frame_from_code by execute or by CALL/CALL_N, the
\* stack depth under the operands, and whether the arguments could be popped
CallOffset ==
    LET s == sp(heap, frame)
        base == StackIdx(frame, code)
    IN IF ev'.act = "Execute" THEN call'.offset
       ELSE IF ev'.ins.opcode = Opcode.CallN THEN heap.w[base + s - 1]
       ELSE heap.w[base + s - 2]
CallCount ==
    IF ev'.act = "Execute" THEN Len(call'.args)
    ELSE IF ev'.ins.opcode = Opcode.CallN THEN ev'.ins.n1
    ELSE heap.w[StackIdx(frame, code) + sp(heap, frame) - 1]
CallDepth ==
    IF ev'.ins.opcode = Opcode.CallN THEN sp(heap, frame) - 1 ELSE sp(heap, frame) - 2
CallPopped == ev'.act = "Execute" \/ (0 <= CallCount /\ CallCount <= CallDepth)

\* C11: a code block is resolved by testing, in this order, that its 4
\* header bytes lie inside the constant pool (else InvalidAddress), that
\* local_count and max_stack are <= 63 (else InvalidCodeObject) and that its
\* bytecode lies inside the pool (else InvalidAddress); a failed test
\* allocates no frame, and the code of a running frame lies, header and
\* bytecode, inside the pool.
C11_Resolve ==
    [][ev'.act \in {"Execute", "Call"} /\ status' \notin {"panic", "ub"} /\ CallPopped =>
         LET at == WAdd(PoolBase, CallOffset)
             len == PoolByte(at + 2) + 256 * PoolByte(at + 3)
         IN /\ IF ~InPool(at, 4)
                 THEN outcome'.code = "InvalidAddress" /\ heap'.brk = heap.brk
               ELSE IF PoolByte(at) > 63 \/ PoolByte(at + 1) > 63
                 THEN outcome'.code = "InvalidCodeObject" /\ heap'.brk = heap.brk
               ELSE IF ~InPool(at + 4, len)
                 THEN outcome'.code = "InvalidAddress" /\ heap'.brk = heap.brk
               ELSE status' = "running" =>
                      code' = Code(PoolByte(at), PoolByte(at + 1), at + 4, len)
            /\ status' = "running" =>
                 InPool(code'.base - 4, 4) /\ InPool(code'.base, code'.len)]_vars

\* a step in which execute_one ran
Dispatched == {"Faulted", "Continue", "Skip", "Call", "Return", "Jump"}

\* C12: whenever an instruction is dispatched, the current frame and every
\* frame on its caller chain have sp <= max_stack and pc <= bytecode_len,
\* whatever the program stored with STORE_SLOT or STORE_SLOT_N before.
C12_FrameBounds ==
    [][status = "running" /\ ev'.act \in Dispatched =>
         \A g \in Callers(heap, frame, HeapBlocks) :
           LET found == IF g = frame THEN Ok(heap, code)
                        ELSE get_code(heap, addr_from_offset(code_offset(heap, g)))
           IN found.k = "ok" =>
                /\ sp(heap, g) <= found.v.max_stack
                /\ pc(heap, g) <= found.v.len]_vars

\* the operands of the STORE_SLOT or STORE_SLOT_N dispatched by the step: the
\* number of words it pops, the value, and the slot address, addr + slot *
\* word_size as a wrapping sum
StorePops == IF ev'.ins.opcode = Opcode.StoreSlotN THEN 2 ELSE 3
StoreValue == heap.w[StackIdx(frame, code) + sp(heap, frame) - 1]
StoreAddr ==
    LET top == StackIdx(frame, code) + sp(heap, frame) - 1 IN
    IF ev'.ins.opcode = Opcode.StoreSlotN
      THEN WAdd(heap.w[top - 1], Shl(ev'.ins.n1, 2))
      ELSE WAdd(heap.w[top - 2], Shl(heap.w[top - 1], 2))
IsStore ==
    /\ status = "running"
    /\ ev'.act \in Dispatched
    /\ ev'.ins.opcode \in {Opcode.StoreSlot, Opcode.StoreSlotN}
    /\ sp(heap, frame) >= StorePops
    /\ sp(heap, frame) <= code.max_stack
    /\ status' # "panic"

\* the slot address is an address of the constant pool
AddrInPool(a) == a >= PoolBase /\ a < PoolBase + PoolLen

\* what C13 says of a store that succeeded, and of any store: it succeeded
\* exactly when the slot address is word-aligned and inside the heap, and
\* then that one word holds the value and no other word changed (pc and sp
\* of the running frame apart); a store that failed changed none
StoreEffect ==
    LET stored == ev'.act = "Continue"
        i == Idx(StoreAddr)
    IN /\ stored = (StoreAddr % WordBytes = 0 /\ is_ptr_inside(StoreAddr, WordBytes))
       /\ pool' = pool
       /\ heap'.brk = heap.brk
       /\ stored =>
            /\ \A j \in 0 .. HeapWords - 1 :
                 j # i /\ j # Idx(frame) + 2 => heap'.w[j] = heap.w[j]
            /\ i # Idx(frame) + 2 => heap'.w[i] = StoreValue
       /\ ~stored => SameButPcSp(heap, heap', frame)

\* C13 as claimed: a STORE_SLOT or STORE_SLOT_N whose slot address lies
\* inside the constant pool always fails InvalidAddress and changes nothing;
\* a store succeeds only at a word-aligned address inside the heap and then
\* changes exactly that word.
C13_StoreInPool ==
    [][IsStore =>
         /\ AddrInPool(StoreAddr) => status' = "fault" /\ outcome'.code = "InvalidAddress"
         /\ StoreEffect]_vars

\* C13 amended: such a store always fails and changes nothing; it fails
\* Unaligned when the slot address is not word-aligned and InvalidAddress
\* when it is; a store succeeds only at a word-aligned address inside the
\* heap and then changes exactly that word.
C13_Store ==
    [][IsStore =>
         /\ AddrInPool(StoreAddr) =>
              /\ status' = "fault"
              /\ outcome'.code = IF StoreAddr % WordBytes = 0 THEN "InvalidAddress"
                                                             ELSE "Unaligned"
         /\ StoreEffect]_vars

\* C13's case: STORE_SLOT_N 1 on an address of the pool failed InvalidAddress
C13_Witness ==
    /\ status = "fault"
    /\ outcome.code = "InvalidAddress"
    /\ ev.act = "Faulted"
    /\ ev.ins.opcode = Opcode.StoreSlotN
    /\ call.args = << PoolBase + 8, 1 >>
    /\ sp(heap, frame) = 0

\* the operands of the LOAD_SLOT or LOAD_SLOT_N dispatched by the step: the
\* number of words it pops and the slot address, a wrapping sum
LoadPops == IF ev'.ins.opcode = Opcode.LoadSlotN THEN 1 ELSE 2
LoadAddr ==
    LET top == StackIdx(frame, code) + sp(heap, frame) - 1 IN
    IF ev'.ins.opcode = Opcode.LoadSlotN
      THEN WAdd(heap.w[top], Shl(ev'.ins.n1, 2))
      ELSE WAdd(heap.w[top - 1], Shl(heap.w[top], 2))
IsLoad ==
    /\ status = "running"
    /\ ev'.act \in Dispatched
    /\ ev'.ins.opcode \in {Opcode.LoadSlot, Opcode.LoadSlotN}
    /\ sp(heap, frame) >= LoadPops
    /\ sp(heap, frame) <= code.max_stack

\* what a load does at slot address a: Unaligned, or the word at a pushed in
\* place of the operands when the whole word lies in the pool or in the
\* heap, or InvalidAddress
LoadEffect(a) ==
    IF a % WordBytes # 0 THEN status' = "fault" /\ outcome'.code = "Unaligned"
    ELSE IF InPool(a, WordBytes) \/ is_ptr_inside(a, WordBytes)
      THEN /\ ev'.act = "Continue"
           /\ sp(heap', frame) = sp(heap, frame) - LoadPops + 1
           /\ Idx(a) # Idx(frame) + 2 =>
                heap'.w[StackIdx(frame, code) + sp(heap', frame) - 1]
                  = ReadWord(heap, IF InPool(a, WordBytes) THEN "pool" ELSE "heap", a)
      ELSE status' = "fault" /\ outcome'.code = "InvalidAddress"

\* C14: LOAD_SLOT and LOAD_SLOT_N fail Unaligned at a slot address that is
\* not word-aligned, push the word at a slot address whose word lies inside
\* the pool or the heap, and fail InvalidAddress at any other; whatever addr
\* and slot are, sums that wrap included, the call goes on or ends with an
\* error, and no word outside the pool and the heap is read.
C14_Load ==
    [][IsLoad => status' \in {"running", "fault"} /\ LoadEffect(LoadAddr)]_vars

\* the operands of the NEW or NEW_N_N dispatched by the step: the slots and
\* the fill, and the stack depth under the operands
NewSlots ==
    IF ev'.ins.opcode = Opcode.NewNN THEN ev'.ins.n1
    ELSE heap.w[StackIdx(frame, code) + sp(heap, frame) - 2]
NewFill ==
    IF ev'.ins.opcode = Opcode.NewNN THEN ev'.ins.n2
    ELSE heap.w[StackIdx(frame, code) + sp(heap, frame) - 1]
NewDepth == IF ev'.ins.opcode = Opcode.NewNN THEN sp(heap, frame) ELSE sp(heap, frame) - 2
IsNew ==
    /\ status = "running"
    /\ ev'.act \in Dispatched
    /\ ev'.ins.opcode \in {Opcode.New, Opcode.NewNN}
    /\ NewDepth >= 0
    /\ sp(heap, frame) <= code.max_stack

\* the address the next allocation returns
NextObject == HeapBase + heap.brk * WordBytes

\* the allocations made so far that start at address a
SpansAt(h, a) == {i \in 1 .. Len(h.spans) : HeapBase + h.spans[i][1] * WordBytes = a}

\* C15: a NEW or NEW_N_N that succeeds with N slots and F filled leaves a
\* new object whose slots 0 .. F-1 are the F words popped, in push order,
\* and whose slots F .. N-1 are 0; the F words (and NEW's two operands) are
\* off the stack and the object's address is on top; and LOAD_SLOT_N i on
\* the address of an object pushes the word its slot i holds.
C15_New ==
    [][/\ IsNew /\ ev'.act = "Continue" =>
            LET base == StackIdx(frame, code)
                d == NewDepth
                F == NewFill
                N == NewSlots
                new == NextObject
            IN /\ 0 <= F /\ F <= N /\ F <= d
               /\ sp(heap', frame) = d - F + 1
               /\ heap'.w[base + d - F] = new
               /\ is_ptr_inside(new, N * WordBytes)
               /\ heap'.brk >= heap.brk + N
               /\ \A i \in 0 .. N - 1 :
                    heap'.w[Idx(new) + i] = IF i < F THEN heap.w[base + d - F + i] ELSE 0
       /\ IsLoad /\ ev'.ins.opcode = Opcode.LoadSlotN =>
            LET a == heap.w[StackIdx(frame, code) + sp(heap, frame) - 1]
                i == ev'.ins.n1
            IN \A t \in SpansAt(heap, a) :
                 0 <= i /\ i < heap.spans[t][2] /\ Idx(a) + i # Idx(frame) + 2 =>
                   /\ ev'.act = "Continue"
                   /\ heap'.w[StackIdx(frame, code) + sp(heap, frame) - 1]
                        = heap.w[Idx(a) + i]]_vars

\* C15's case: NEW of 3 slots with 2 filled, and slot 1 loaded from it
C15_Witness ==
    /\ status = "returned"
    /\ call.offset = 180
    /\ call.args = << 3, 2 >>
    /\ outcome.count = 2
    /\ results = << Frame0 + 3 * BlockWords * WordBytes, 8 >>
    /\ heap.w[Idx(results[1])] = 7
    /\ heap.w[Idx(results[1]) + 2] = 0

\* C16: NEW and NEW_N_N fail InvalidSize when slots > 64 (as an unsigned
\* word, and whatever fill is), else OutOfBounds when fill > slots, else
\* OutOfMemory when the heap has no room for the slots, else StackUnderflow
\* when fewer than fill words are on the stack; 64 slots pass the size test;
\* and a NEW that fails leaves no word more on the stack than were under its
\* operands, and those unchanged.
C16_NewErrors ==
    [][IsNew /\ status' # "panic" =>
         LET base == StackIdx(frame, code)
             d == NewDepth
             F == NewFill
             N == NewSlots
             failed(e) == status' = "fault" /\ outcome'.code = e
         IN /\ IF N < 0 \/ N > 64 THEN failed("InvalidSize")
               ELSE IF F < 0 \/ F > N THEN failed("OutOfBounds")
               ELSE IF heap.brk * WordBytes + N * WordBytes > HeapWords * WordBytes
                 THEN failed("OutOfMemory")
               ELSE IF F > d THEN failed("StackUnderflow")
               ELSE ev'.act = "Continue" \/ failed("StackOverflow")
            /\ N = 64 => outcome'.code # "InvalidSize"
            /\ N = 65 => failed("InvalidSize")
            /\ status' = "fault" =>
                 /\ sp(heap', frame) <= d
                 /\ \A i \in 0 .. sp(heap', frame) - 1 : heap'.w[base + i] = heap.w[base + i]]_vars

\* C16's case: a first object of 64 slots was made, and a second NEW of 64
\* slots with more to fill than the stack holds failed OutOfMemory
C16_Witness ==
    /\ status = "fault"
    /\ outcome.code = "OutOfMemory"
    /\ ev.ins.opcode = Opcode.New
    /\ call.offset = 216
    /\ call.args = << 64, 3 >>
    /\ sp(heap, frame) = 0
    /\ \E t \in 1 .. Len(heap.spans) : heap.spans[t][2] = 64

C18_Jump ==
    [][status = "running" /\ ev'.act \in Dispatched /\ ev'.ins.opcode = Opcode.Jump =>
         IF 0 <= ev'.ins.n1 /\ ev'.ins.n1 < code.len
           THEN /\ status' = "running"
                /\ frame' = frame
                /\ pc(heap', frame) = ev'.ins.n1
                /\ sp(heap', frame) = sp(heap, frame)
                /\ SameButPcSp(heap, heap', frame)
           ELSE /\ status' = "fault"
                /\ outcome' = ErrOutcome("OutOfBounds", frame)
                /\ heap' = heap
                /\ pc(heap, frame) = ev'.ins.offset]_vars

\* the four instructions on locals and globals, the number of locals or
\* globals the one dispatched by the step indexes, and the heap word of its
\* slot n1
Indexed == {Opcode.LoadLocalN, Opcode.StoreLocalN, Opcode.LoadGlobalN, Opcode.StoreGlobalN}
IndexBound ==
    IF ev'.ins.opcode \in {Opcode.LoadLocalN, Opcode.StoreLocalN} THEN code.local_count
    ELSE GlobalCount
IndexedWord ==
    IF ev'.ins.opcode \in {Opcode.LoadLocalN, Opcode.StoreLocalN}
      THEN LocalsIdx(frame) + ev'.ins.n1
      ELSE GlobalsIdx + ev'.ins.n1

\* C19: LOAD_LOCAL_N, STORE_LOCAL_N, LOAD_GLOBAL_N and STORE_GLOBAL_N with n1
\* outside 0 .. count-1 (negative n1 included) fail OutOfBounds with nothing
\* popped or changed, also on an empty stack; with a valid n1 a store pops
\* one word into local or global n1 and changes no other word, and a load
\* pushes the word that local or global n1 holds, so that a load after a
\* store yields the stored word.
C19_Indexed ==
    [][status = "running" /\ ev'.act \in Dispatched /\ ev'.ins.opcode \in Indexed
          /\ sp(heap, frame) <= code.max_stack =>
         LET s == sp(heap, frame)
             base == StackIdx(frame, code)
             isStore == ev'.ins.opcode \in {Opcode.StoreLocalN, Opcode.StoreGlobalN}
             failed(e) == status' = "fault" /\ outcome' = ErrOutcome(e, frame)
         IN IF ev'.ins.n1 < 0 \/ ev'.ins.n1 >= IndexBound
              THEN failed("OutOfBounds") /\ heap' = heap
            ELSE IF isStore
              THEN IF s = 0 THEN failed("StackUnderflow") /\ heap' = heap
                   ELSE /\ ev'.act = "Continue"
                        /\ sp(heap', frame) = s - 1
                        /\ heap'.w[IndexedWord] = heap.w[base + s - 1]
                        /\ \A j \in 0 .. HeapWords - 1 :
                             j # IndexedWord /\ j # Idx(frame) + 2 => heap'.w[j] = heap.w[j]
            ELSE IF s = code.max_stack THEN failed("StackOverflow") /\ heap' = heap
                 ELSE /\ ev'.act = "Continue"
                      /\ sp(heap', frame) = s + 1
                      /\ heap'.w[base + s] = heap.w[IndexedWord]
                      /\ \A j \in 0 .. HeapWords - 1 :
                           j # base + s /\ j # Idx(frame) + 2 => heap'.w[j] = heap.w[j]]_vars

\* C19's case: STORE_LOCAL_N 1 in a block of one local, on an empty stack,
\* failed OutOfBounds
C19_Witness ==
    /\ status = "fault"
    /\ outcome.code = "OutOfBounds"
    /\ ev.ins.opcode = Opcode.StoreLocalN
    /\ ev.ins.n1 = code.local_count
    /\ sp(heap, frame) = 0
    /\ pc(heap, frame) = 0

\* the globals of a heap
Globals(h) == [n \in 0 .. GlobalCount - 1 |-> h.w[GlobalsIdx + n]]

\* C20: over any number of execute calls on one Runtime, only STORE_GLOBAL_N
\* changes a global, and STORE_GLOBAL_N n only global n: no other instruction,
\* no frame creation, NEW or return, and no end or start of a call does; so
\* LOAD_GLOBAL_N n pushes the word of the last STORE_GLOBAL_N n, however the
\* call that stored it ended.
C20_Globals ==
    [][IF ev'.act \in Dispatched /\ ev'.ins.opcode = Opcode.StoreGlobalN
         THEN \A n \in 0 .. GlobalCount - 1 :
                n # ev'.ins.n1 => Globals(heap')[n] = Globals(heap)[n]
         ELSE Globals(heap') = Globals(heap)]_vars

\* ---- execute as a function: the loop of Runtime::execute run to its end

\* the most iterations of the loop that are followed
MaxSteps == 40

\* the heap of Runtime::new
NewHeap ==
    Allocate([w |-> [i \in 0 .. HeapWords - 1 |-> 0], brk |-> 0, spans |-> << >>],
             GlobalCount * WordBytes).h

\* the call has ended / the loop goes on
Ended(st, out, res) ==
    [done |-> TRUE, status |-> st, outcome |-> out, results |-> res,
     h |-> NewHeap, f |-> Null, c |-> NoCode, sk |-> FALSE]
Going(h, f, c, sk, res) ==
    [done |-> FALSE, status |-> "running", outcome |-> NoOutcome, results |-> res,
     h |-> h, f |-> f, c |-> c, sk |-> sk]
StopOf(r, f, res) ==
    Ended(CASE r.k = "err" -> "fault" [] r.k = "panic" -> "panic" [] OTHER -> "ub",
          IF r.k = "err" THEN ErrOutcome(r.e, f) ELSE NoOutcome, res)

\* one iteration of the loop, for a call without max_cycles and deadline
Iterate(h, f, c, sk, res) ==
    IF pc(h, f) = c.len THEN Ended("returned", OkOutcome(0), res)
    ELSE LET decoded == decode_next(h, c, pc(h, f)) IN
    IF decoded.k # "ok" THEN StopOf(decoded, f, res)
    ELSE LET next_pc == decoded.v[2] IN
    IF sk THEN Going(SetPc(h, f, next_pc), f, c, FALSE, res)
    ELSE LET done == execute_one(h, f, c, decoded.v[1]) IN
    IF done.k # "ok" THEN StopOf(done, f, res)
    ELSE CASE done.v.d = "Continue" -> Going(SetPc(done.h, f, next_pc), f, c, FALSE, res)
           [] done.v.d = "Skip" -> Going(SetPc(done.h, f, next_pc), f, c, TRUE, res)
           [] done.v.d = "Call" ->
                LET args == get_n(SetPc(done.h, f, next_pc), f, c, done.v.n)
                    made == IF args.k = "ok"
                              THEN frame_from_code(args.h, done.v.a, f, args.v)
                              ELSE to_error(args, f)
                IN IF made.k = "ok"
                     THEN Going(made.h, made.v.frame, made.v.code, FALSE, res)
                     ELSE StopOf(made, made.v, res)
           [] done.v.d = "Return" ->
                LET stack_results == get_n(done.h, f, c, done.v.n)
                    previous == up_frame(stack_results.h, f)
                    taken == Poke(stack_results.h, Idx(f), Null)
                IN IF stack_results.k # "ok" THEN StopOf(stack_results, f, res)
                   ELSE IF previous = Null
                     THEN Ended("returned", OkOutcome(returned_count(res, done.v.n)),
                                copy_results(res, stack_results.v, done.v.n))
                     ELSE LET back == resume(taken, previous)
                              put_back == IF back.k = "ok"
                                            THEN put_n(back.h, back.v.frame, back.v.code,
                                                       stack_results.v)
                                            ELSE back
                          IN IF put_back.k = "ok"
                               THEN Going(put_back.h, previous, back.v.code, FALSE, res)
                               ELSE StopOf(put_back, previous, res)
           [] done.v.d = "Jump" ->
                IF done.v.a >= c.len THEN StopOf(Fail(done.h, "OutOfBounds"), f, res)
                ELSE Going(SetPc(done.h, f, done.v.a), f, c, FALSE, res)

\* the loop, followed for at most `fuel` iterations
RECURSIVE Run(_, _)
Run(s, fuel) ==
    IF s.done \/ fuel = 0 THEN s
    ELSE Run(Iterate(s.h, s.f, s.c, s.sk, s.results), fuel - 1)

\* Runtime::execute(offset, args, results, None, None) on a Runtime whose heap is h
execute(h, offset, args, len) ==
    LET r == frame_from_code(h, offset, Null, args)
        res == [i \in 1 .. len |-> Stale]
    IN IF r.k = "ok" THEN Run(Going(r.h, r.v.frame, r.v.code, FALSE, res), MaxSteps)
       ELSE StopOf(r, r.v, res)

\* what the host is told by a call: how it ended, the count, the fault kind
\* and the contents of results
Told(st, out, res) == [status |-> st, count |-> out.count, code |-> out.code, results |-> res]
ToldBy(s) == Told(s.status, s.outcome, s.results)

\* the loop as a function agrees with the loop as steps: from every state of a
\* running call it tells the host what the steps go on to tell
RunAgrees ==
    [][status = "running" /\ status' # "running" /\ call.max_cycles = 0 /\ call.deadline = 0
         => ToldBy(Run(Going(heap, frame, code, skip, results), 1))
              = Told(status', outcome', results')]_vars
RunGoes ==
    [][status = "running" /\ status' = "running" /\ call.max_cycles = 0 /\ call.deadline = 0
         => Iterate(heap, frame, code, skip, results)
              = Going(heap', frame', code', skip', results')]_vars

\* the heap of a new Runtime whose globals hold the words g
HeapWith(g) ==
    [NewHeap EXCEPT !.w = [i \in 0 .. HeapWords - 1 |->
                              IF i >= GlobalsIdx /\ i < GlobalsIdx + GlobalCount
                                THEN g[i - GlobalsIdx] ELSE @[i]]]

\* C21: every execute call, whatever calls the Runtime has served before,
\* tells the host (how it ended, the returned count, the fault kind and the
\* contents of results) exactly what the same call, with the same pool,
\* offset, args and limits, tells it on a new Runtime with the same globals.
C21_Stateless ==
    [][ev'.act = "Execute"
         => ToldBy(execute(heap, call'.offset, call'.args, Len(results')))
              = ToldBy(execute(HeapWith(Globals(heap)), call'.offset, call'.args,
                               Len(results')))]_vars

\* ---- programs that compute: one code block per pool, at offset 0

\* a varint as decode_uint reads it: 7 bits per byte, least significant
\* first, bit 7 set on all but the last byte
RECURSIVE encode_uint(_)
encode_uint(v) ==
    IF v >= 0 /\ v < 128 THEN << v >>
    ELSE << 128 + (v % 128) >> \o encode_uint(LShr(v, 7))

\* the zig-zag word of a signed word: (s << 1) ^ (s >> (w - 1))
zigzag(s) == BitXor(Shl(s, 1), AShr(s, MAX_SHIFT - 1))

\* an operand as decode_sint reads it
Sint(n) == encode_uint(zigzag(n))

\* BINARY n1 and UNARY n1 on the arguments of the call
BinaryBlock(n1) ==
    Block(2, 2, << Opcode.LoadLocalN, Z(0), Opcode.LoadLocalN, Z(1), Opcode.Binary >>
                  \o Sint(n1) \o << Opcode.ReturnN, Z(1) >>)
UnaryBlock(n1) ==
    Block(1, 1, << Opcode.LoadLocalN, Z(0), Opcode.Unary >> \o Sint(n1)
                  \o << Opcode.ReturnN, Z(1) >>)

\* the sub-operations tried: every one the enums name, and others
BinaryOps == 0 .. 13 \cup { 14, 254, 255, 256, -1 }
UnaryOps == 0 .. 2 \cup { 3, 254, 255, 256, -1 }
ArithPools == { BinaryBlock(n) : n \in BinaryOps } \cup { UnaryBlock(n) : n \in UnaryOps }

\* the operands tried
ArithWords == { 0, 1, -1, 2, 6, -7, 31, 32, MinWord, MaxWord }
ArithArgLists == { << a >> : a \in ArithWords } \cup { << a, b >> : a, b \in ArithWords }

ExecuteArith == ExecuteWith({"idle"}, {0}, ArithArgLists, {MaxResults}, {0}, {0})

InitArith ==
    /\ pool \in ArithPools
    /\ heap = NewHeap
    /\ timer = FALSE
    /\ now = 0
    /\ build \in {"debug", "release"}
    /\ status = "idle"
    /\ frame = Null
    /\ code = NoCode
    /\ skip = FALSE
    /\ cycles = 0
    /\ call = [offset |-> 0, args |-> << >>, max_cycles |-> 0, deadline |-> 0]
    /\ results = << >>
    /\ outcome = NoOutcome
    /\ ev = Event("Init", NoInstruction, Null, 0)

NextArith ==
    \/ ExecuteArith
    \/ Step

SpecArith == InitArith /\ [][NextArith]_vars

\* the instruction of the step is a BINARY / UNARY that was dispatched, and
\* its operands: b on top of a
IsBinary == ev'.act \in Dispatched /\ ev'.ins.opcode = Opcode.Binary
IsUnary == ev'.act \in Dispatched /\ ev'.ins.opcode = Opcode.Unary
Depth == sp(heap, frame)
OperandB == heap.w[StackIdx(frame, code) + Depth - 1]
OperandA == heap.w[StackIdx(frame, code) + Depth - 2]

\* C22: BINARY Div and BINARY Mod with a second operand of 0 end execute with
\* an error value that carries the current frame, whatever the first operand.
C22_DivideByZero ==
    [][IsBinary /\ ev'.ins.n1 \in {3, 4} /\ Depth >= 2 /\ OperandB = 0
         => status' = "fault" /\ outcome'.frame = frame]_vars

\* the value BINARY n1 is to push for the operands a and b, n1 in 0 .. 13
\* (shifts: for a shift count b in 0 .. w - 1)
BinaryValue(n1, a, b) ==
    CASE n1 = 0 -> WAdd(a, b)
      [] n1 = 1 -> WSub(a, b)
      [] n1 = 2 -> WMul(a, b)
      [] n1 = 3 -> IF a = MinWord /\ b = -1 THEN MinWord ELSE TruncDiv(a, b)
      [] n1 = 4 -> IF a = MinWord /\ b = -1 THEN 0 ELSE TruncMod(a, b)
      [] n1 = 5 -> IF a = b THEN 1 ELSE 0
      [] n1 = 6 -> IF a < b THEN 1 ELSE 0
      [] n1 = 7 -> IF a <= b THEN 1 ELSE 0
      [] n1 = 8 -> BitOr(a, b)
      [] n1 = 9 -> BitAnd(a, b)
      [] n1 = 10 -> BitXor(a, b)
      [] n1 = 11 -> Shl(a, b)
      [] n1 = 12 -> LShr(a, b)
      [] n1 = 13 -> AShr(a, b)

\* the step pops two words and pushes v in the current frame, and goes on
\* to the next instruction
PushesFor(pops, v) ==
    /\ status' = "running"
    /\ ev'.act = "Continue"
    /\ frame' = frame
    /\ sp(heap', frame) = Depth - pops + 1
    /\ heap'.w[StackIdx(frame, code) + Depth - pops] = v
    /\ \A i \in 0 .. Depth - pops - 1 :
         heap'.w[StackIdx(frame, code) + i] = heap.w[StackIdx(frame, code) + i]

\* C23: BINARY n1 with n1 in 0 .. 13 on a stack of at least two words pops b
\* (top) and a and pushes op(a, b) on signed words: Add, Sub, Mul wrapping,
\* Div and Mod truncating toward zero (b # 0), Equals, LessThan and LessOrEq
\* 1 or 0 by signed comparison, BitOr, BitAnd, BitXor bitwise, ShiftRight
\* zero-filling and SignShiftRight sign-filling (shift counts 0 .. w - 1);
\* the stack is one word shorter afterwards, for all such operands and for
\* every shift count.
C23_Binary ==
    [][IsBinary /\ ev'.ins.n1 \in 0 .. 13 /\ Depth >= 2
         /\ ~(ev'.ins.n1 \in {3, 4} /\ OperandB = 0)
         => IF ev'.ins.n1 \in {11, 12, 13} /\ ~(OperandB \in 0 .. MAX_SHIFT - 1)
              THEN status' = "running" /\ sp(heap', frame) = Depth - 1
              ELSE PushesFor(2, BinaryValue(ev'.ins.n1, OperandA, OperandB))]_vars

\* the step fails with the error code e in the current frame, `pops` words
\* shorter
FailsAfter(pops, e) ==
    /\ status' = "fault"
    /\ outcome' = ErrOutcome(e, frame)
    /\ sp(heap', frame) = Depth - pops
    /\ pc(heap', frame) = pc(heap, frame)

\* C24: UNARY n1 on a non-empty stack pops a and pushes 1 or 0 for n1 = 0
\* (1 when a = 0), the two's-complement negation of a for n1 = 1 (the most
\* negative word wraps to itself) and the bitwise complement of a for n1 = 2;
\* for any other n1 it fails UnknownOpcode with the operand popped, and so
\* does BINARY with n1 outside 0 .. 13, with both operands popped.
C24_Unary ==
    [][/\ IsUnary /\ Depth >= 1 =>
            CASE ev'.ins.n1 = 0 -> PushesFor(1, IF OperandB = 0 THEN 1 ELSE 0)
              [] ev'.ins.n1 = 1 -> PushesFor(1, IF OperandB = MinWord THEN MinWord ELSE -OperandB)
              [] ev'.ins.n1 = 2 -> PushesFor(1, BitXor(OperandB, -1))
              [] OTHER -> FailsAfter(1, "UnknownOpcode")
       /\ IsBinary /\ ~(ev'.ins.n1 \in 0 .. 13) /\ Depth >= 2 => FailsAfter(2, "UnknownOpcode")]_vars

\* ---- programs that try the decoder: one code block per pool, at offset 0

\* opcode bytes tried: assigned ones of each class, and unassigned ones of
\* each class
TriedOpcodes == { Opcode.Nop, Opcode.Dup, Opcode.If, 11, 15, Opcode.Immediate, Opcode.Unary,
                  29, 31, Opcode.NewNN, 33, 47, 48, 128, 254, 255 }
\* the bytes that follow the opcode byte: none, one-, two- and five-byte
\* varints, unfinished ones and ones that are too long
TriedOperands == { << >>, << 2 >>, << 128 >>, << 128, 1 >>, << 2, 4 >>, << 128, 1, 2 >>,
                   << 2, 128 >>, << 2, 128, 0 >>, << 128, 128, 128, 128, 1 >>,
                   << 128, 128, 128, 128, 128, 1 >>, << 255, 255, 255, 255, 15 >>,
                   << 255, 255, 255, 255, 127, 2 >> }
TriedBodies ==
    { << op >> \o operands : op \in TriedOpcodes, operands \in TriedOperands }
      \cup { << Opcode.If, Opcode.Immediate, 128, 1 >>, << Opcode.If, Opcode.NewNN, 2, 128, 1 >>,
             << Opcode.If, 33, 128, 1, 2 >>, << Opcode.If, Opcode.Immediate, 128 >>,
             << Opcode.If, 29 >> }
DecodePools ==
    { Block(1, 3, << Opcode.LoadLocalN, Z(0) >> \o body \o tail) :
        body \in TriedBodies, tail \in { << >>, << Opcode.Nop >> } }

ExecuteDecode == ExecuteWith({"idle"}, {0}, { << 0 >>, << 1 >> }, {MaxResults}, {0}, {0})

InitDecode ==
    /\ pool \in DecodePools
    /\ heap = NewHeap
    /\ timer = FALSE
    /\ now = 0
    /\ build \in {"debug", "release"}
    /\ status = "idle"
    /\ frame = Null
    /\ code = NoCode
    /\ skip = FALSE
    /\ cycles = 0
    /\ call = [offset |-> 0, args |-> << >>, max_cycles |-> 0, deadline |-> 0]
    /\ results = << >>
    /\ outcome = NoOutcome
    /\ ev = Event("Init", NoInstruction, Null, 0)

NextDecode ==
    \/ ExecuteDecode
    \/ Step

SpecDecode == InitDecode /\ [][NextDecode]_vars

\* the opcode bytes that enum Opcode assigns, Unknown apart
Assigned == 0 .. 10 \cup 16 .. 28 \cup { 32 }

\* the number of bytes of the varint that starts at offset i, `seen` of its
\* bytes read already; 0 when there is none: the bytecode ends first, or the
\* varint goes on after the last byte that fits the word
RECURSIVE VarintLength(_, _, _)
VarintLength(c, i, seen) ==
    IF i >= c.len THEN 0
    ELSE IF Byte(c, i) < 128 THEN seen + 1
    ELSE IF 7 * (seen + 1) >= MAX_SHIFT THEN 0
    ELSE VarintLength(c, i + 1, seen + 1)

\* the encoded length of the instruction at offset i < c.len; 0 when an
\* immediate it needs is not there
InstructionLength(c, i) ==
    LET op == Byte(c, i)
        first == VarintLength(c, i + 1, 0)
        second == VarintLength(c, i + 1 + first, 0)
    IN IF op < FIRST_N1_OPCODE \/ op >= LAST_N_OPCODE THEN 1
       ELSE IF first = 0 THEN 0
       ELSE IF op < FIRST_N2_OPCODE THEN 1 + first
       ELSE IF second = 0 THEN 0
       ELSE 1 + first + second

\* the step decodes the instruction at pc and, the skip flag being clear,
\* is to dispatch it
Dispatching ==
    /\ status = "running"
    /\ ~skip
    /\ ev'.act \in Decoding
    /\ pc(heap, frame) < code.len

C26_Length ==
    [][/\ ev'.act \in {"Continue", "Skip"} =>
            /\ InstructionLength(code, pc(heap, frame)) > 0
            /\ frame' = frame
            /\ pc(heap', frame) = pc(heap, frame) + InstructionLength(code, pc(heap, frame))
       /\ status = "running" /\ ev'.act \in Decoding =>
            (ev'.act = "Truncated") =
              (pc(heap, frame) >= code.len \/ InstructionLength(code, pc(heap, frame)) = 0)
       /\ ev'.act = "Truncated" =>
            /\ status' = "fault"
            /\ outcome' = ErrOutcome("TruncatedCode", frame)
            /\ heap' = heap
       /\ status = "running" =>
            LET d == decode_next(heap, code, pc(heap, frame)) IN
            /\ (d.k = "err") =
                 (pc(heap, frame) >= code.len \/ InstructionLength(code, pc(heap, frame)) = 0)
            /\ d.k = "err" => d.e = "TruncatedCode"
            /\ d.k \in {"ok", "err"}]_vars

\* C26's case: NEW_NN with a two-byte and a one-byte immediate has completed
\* and pc is four bytes on
C26_Witness ==
    /\ status = "running"
    /\ ev.act = "Continue"
    /\ ev.ins.opcode = Opcode.NewNN
    /\ ev.ins.n1 = 64
    /\ ev.ins.offset = 2
    /\ pc(heap, frame) = 6

\* ------------------------------------------------------- frames of faults

\* a pool of callers and callees: each fault of the creation of a frame, of a
\* handler, of a return and of a limit can happen in the root and in a callee
callerN0 == Block(2, 2, << Opcode.LoadLocalN, Z(1), Opcode.LoadLocalN, Z(0), Opcode.CallN, Z(1),
                           Opcode.ReturnN, Z(1) >>)
caller12 == Block(2, 3, << Opcode.LoadLocalN, Z(1), Opcode.LoadLocalN, Z(0),
                           Opcode.Immediate, Z(1), Opcode.Call, Opcode.ReturnN, Z(1) >>)
big28 == Block(63, 63, << Opcode.Nop >>)
none36 == Block(0, 1, << Opcode.Immediate, Z(1), Opcode.ReturnN, Z(1) >>)
three44 == Block(1, 3, << Opcode.LoadLocalN, Z(0), Opcode.Dup, Opcode.Dup, Opcode.ReturnN, Z(3) >>)
same56 == Block(1, 1, << Opcode.LoadLocalN, Z(0), Opcode.ReturnN, Z(1) >>)
header64 == << 64, 0, 0, 0 >>
under68 == Block(1, 1, << Opcode.Drop >>)
spin76 == Block(1, 0, << Opcode.Jump, Z(0) >>)
FramePool ==
    callerN0 \o caller12 \o big28 \o none36 \o three44 \o same56 \o header64 \o under68
      \o spin76
FrameOffsets == { 0, 12, 28, 36, 64, 68, 76, 84 }
FrameArgLists == { << >>, << 1 >> } \cup { << a, 5 >> : a \in { 28, 36, 44, 56, 64, 68, 76, 84 } }

\* a host that calls execute once on that pool, with and without limits
ExecuteFrames ==
    ExecuteWith({"idle"}, FrameOffsets, FrameArgLists, {MaxResults}, {0, MaxCycles + 2}, {0, 1})

InitFrames ==
    /\ pool = FramePool
    /\ heap = NewHeap
    /\ timer \in BOOLEAN
    /\ now \in IF timer THEN 0 .. 1 ELSE {0}
    /\ build \in {"debug", "release"}
    /\ status = "idle"
    /\ frame = Null
    /\ code = NoCode
    /\ skip = FALSE
    /\ cycles = 0
    /\ call = [offset |-> 0, args |-> << >>, max_cycles |-> 0, deadline |-> 0]
    /\ results = << >>
    /\ outcome = NoOutcome
    /\ ev = Event("Init", NoInstruction, Null, 0)

NextFrames ==
    \/ ExecuteFrames
    \/ Step

SpecFrames == InitFrames /\ [][NextFrames]_vars

\* a fault of this step, raised inside the loop of execute
LoopFault == ev'.act \in Decoding \cup {"TimeExceeded", "CyclesExceeded"} /\ status' = "fault"

\* a fault of this step, raised by execute before the loop
RootFault == ev'.act = "Execute" /\ status' = "fault"

\* the codes of a code address or code object that is not valid, and of a
\* heap that is full
CreationCodes ==
    {"InvalidAddress", "InvalidCodeObject", "OutOfMemory"}

\* the fault carries a frame made by this step, whose up_frame is `f`
CarriesNewFrame(f) ==
    /\ outcome'.frame \notin {Null, f}
    /\ Idx(outcome'.frame) >= heap.brk
    /\ up_frame(heap', outcome'.frame) = f

Slice == Code(0, 0, PoolBase, PoolLen)

\* words whose varints have one to five bytes, up to the largest word
VarintWords ==
    {0, 1, 127, 128, 300, 16383, 16384, 2097151, 2097152, 268435455, 268435456,
     1073741823, 1073741824, MaxWord, MinWord, -2, -1}
\* signed words of either sign, small and up to the ends of the range
SintWords ==
    {0, -1, 1, -2, 63, -64, 64, -65, 8191, -8192, 1073741823, -1073741824, 1073741824,
     -1073741825, MaxWord - 1, MinWord + 1, MaxWord, MinWord}
\* what may follow a varint in the slice
Tails == { << >>, << 5 >>, << 128 >> }
\* slices that are no shortest varint: empty, unfinished, padded with zero
\* groups, longer than a word, and with bits above the word in the last group
OddSlices ==
    { << >>, << 128 >>, << 255, 255 >>, << 128, 0 >>, << 129, 128, 0 >>, << 255, 128, 128, 0 >>,
      << 128, 128, 128, 128, 0 >>, << 255, 255, 255, 255, 16 >>, << 255, 255, 255, 255, 127 >>,
      << 128, 128, 128, 128, 16 >>, << 128, 128, 128, 128, 112, 3 >>,
      << 128, 128, 128, 128, 128, 0 >>, << 129, 128, 128, 128, 128, 0 >>,
      << 255, 255, 255, 255, 255, 1 >>, << 255, 255, 255, 255, 255 >>,
      << 128, 128, 128, 128, 128 >>, << 7, 128, 1 >>, << 7, 255, 255, 255, 255, 15 >> }
VarintSlices ==
    { encode_uint(v) \o t : v \in VarintWords \cup { zigzag(s) : s \in SintWords }, t \in Tails }
      \cup OddSlices
\* the indexes a caller passes: the start, inside, the end, past the end
Indexes == { 0, 1, PoolLen, PoolLen + 1 }

\* the decoder's answer as the caller sees it
Decoded(name, index, d) ==
    /\ status = "idle"
    /\ ev' = Event(name, NoInstruction, Null, index)
    /\ results' = d
    /\ UNCHANGED << pool, heap, timer, now, build, status, frame, code, skip, cycles, call,
                    outcome >>

\* a call of decode_uint(bytes, index)
DecodeUint == \E index \in Indexes : Decoded("decode_uint", index, decode_uint(Slice, index))

\* a call of decode_sint(bytes, index)
DecodeSint == \E index \in Indexes : Decoded("decode_sint", index, decode_sint(Slice, index))

InitVarint ==
    /\ pool \in VarintSlices
    /\ heap = NewHeap
    /\ timer = FALSE
    /\ now = 0
    /\ build \in {"debug", "release"}
    /\ status = "idle"
    /\ frame = Null
    /\ code = NoCode
    /\ skip = FALSE
    /\ cycles = 0
    /\ call = [offset |-> 0, args |-> << >>, max_cycles |-> 0, deadline |-> 0]
    /\ results = << >>
    /\ outcome = NoOutcome
    /\ ev = Event("Init", NoInstruction, Null, 0)

NextVarint ==
    \/ DecodeUint
    \/ DecodeSint

SpecVarint == InitVarint /\ [][NextVarint]_vars

\* the index of the first byte from i on without the continuation bit, -1
\* when the slice ends before one
RECURSIVE LastByte(_, _)
LastByte(c, i) ==
    IF i >= c.len THEN -1
    ELSE IF Byte(c, i) < 128 THEN i
    ELSE LastByte(c, i + 1)

\* the k-th group of seven bits has no bit above the word
GroupFits(g, k) ==
    IF 7 * k >= MAX_SHIFT THEN g = 0
    ELSE IF 7 * k + 7 <= MAX_SHIFT THEN TRUE
    ELSE g < Pow2(MAX_SHIFT - 7 * k)

\* the number encoded by the bytes i .. last fits in the word
Fits(c, i, last) == \A j \in i .. last : GroupFits(Byte(c, j) % 128, j - i)

\* that number, when it fits: the sum of its groups, each times 128^k
Encoded(c, i, last) ==
    WSum([k \in 1 .. (last - i + 1) |->
            IF 7 * (k - 1) < MAX_SHIFT THEN Shl(Byte(c, i + k - 1) % 128, 7 * (k - 1)) ELSE 0])

\* C28: decode_uint(bytes, index) returns None when index is at or past the
\* end, when the slice ends while the continuation bit is set, and when the
\* encoded number does not fit in the word; a value it returns is the encoded
\* number, no bit lost, with the index after the last byte.
C28_DecodeUint ==
    [][ev'.act = "decode_uint" =>
         LET i == ev'.n
             last == LastByte(Slice, i)
         IN /\ i >= PoolLen => results' = << >>
            /\ last = -1 => results' = << >>
            /\ (last # -1 /\ ~Fits(Slice, i, last)) => results' = << >>
            /\ results' # << >> =>
                 /\ last # -1
                 /\ Fits(Slice, i, last)
                 /\ results' = << Encoded(Slice, i, last), last + 1 >>]_vars

\* the slice holds the bytes `b` from index i on
HoldsAt(i, b) == i + Len(b) <= PoolLen /\ SubSeq(pool, i + 1, i + Len(b)) = b

\* C29: for every signed word s, decode_sint on the varint of zigzag(s)
\* returns s and the index after it, the most negative and most positive
\* words included; and decode_sint returns None exactly when decode_uint does.
C29_DecodeSint ==
    [][ev'.act = "decode_sint" =>
         /\ (results' = << >>) = (decode_uint(Slice, ev'.n) = << >>)
         /\ \A s \in SintWords :
              HoldsAt(ev'.n, Sint(s)) => results' = << s, ev'.n + Len(Sint(s)) >>]_vars

\* C30 as stated: whatever decode_uint accepts, the varint of the value it
\* returns is the bytes it consumed.
C30_Original ==
    [][(ev'.act = "decode_uint" /\ results' # << >>) =>
         encode_uint(results'[1]) = SubSeq(pool, ev'.n + 1, results'[2])]_vars

\* the bytes i .. last are the shortest varint of their number: the last one
\* is not a zero group, unless it is the only one
Shortest(c, i, last) == last = i \/ Byte(c, last) # 0

\* C30, amended: when decode_uint accepts the shortest varint of a number
\* that fits in the word, the varint of the value it returns is the bytes it
\* consumed.
C30_RoundTrip ==
    [][(/\ ev'.act = "decode_uint"
        /\ results' # << >>
        /\ Shortest(Slice, ev'.n, results'[2] - 1)
        /\ Fits(Slice, ev'.n, results'[2] - 1)) =>
         encode_uint(results'[1]) = SubSeq(pool, ev'.n + 1, results'[2])]_vars

\* C30's case: decode_uint has read the five bytes of the largest unsigned
\* word, from index 1 on
C30_Witness ==
    /\ ev.act = "decode_uint"
    /\ ev.n = 1
    /\ pool = << 7, 255, 255, 255, 255, 15 >>
    /\ results = << -1, 6 >>

\* ------------------------------------------------------- the code offset

\* C31: the code_offset argument of execute is scaled by 4: the root frame's
\* code block is the one at pool byte offset 4 * code_offset, and the
\* code_offset stored in the root frame is the argument.
C31_Scaled ==
    [][(ev'.act = "Execute" /\ status' = "running") =>
         /\ code'.base = PoolBase + 4 * call'.offset + 4
         /\ code_offset(heap', frame') = call'.offset]_vars

\* ------------------------------------------------------ the chain of frames

\* the frames from f along up_frame, down to null; a link that is no frame
\* address, or a chain longer than the heap has blocks, ends in << Null >>
RECURSIVE Chain(_, _, _)
Chain(h, f, fuel) ==
    IF f = Null THEN << >>
    ELSE IF fuel = 0 \/ ~is_ptr_inside(f, FRAME_HEADER_WORDS * WordBytes) THEN << Null >>
    ELSE << f >> \o Chain(h, up_frame(h, f), fuel - 1)

ChainOf(h, f) == Chain(h, f, HeapBlocks)

\* the chain from f ends in null, has no frame twice, and each of its links
\* is the address of an allocation made for a frame
ChainSound(h, f) ==
    LET ch == ChainOf(h, f) IN
    /\ \A i \in 1 .. Len(ch) : ch[i] # Null /\ ch[i] >= Frame0 /\ SpansAt(h, ch[i]) # {}
    /\ \A i, j \in 1 .. Len(ch) : ch[i] = ch[j] => i = j

\* C32: in every state of a running call the up_frame links from the current
\* frame form a finite chain without a cycle that ends in null, each link a
\* frame made by a call that has not returned; execute starts it with the root
\* frame alone, CALL/CALL_N puts exactly the new frame in front of it, a
\* nested RETURN/RETURN_N takes exactly the returning frame off, and no other
\* instruction changes it (so its length is one plus the calls not returned).
C32_Chain ==
    [][status' = "running" =>
         /\ ChainSound(heap', frame')
         /\ ev'.act = "Execute" => ChainOf(heap', frame') = << frame' >>
         /\ ev'.act = "Call" =>
              /\ ChainOf(heap', frame') = << frame' >> \o ChainOf(heap, frame)
              /\ \A i \in 1 .. Len(ChainOf(heap, frame)) : ChainOf(heap, frame)[i] # frame'
         /\ ev'.act = "Return" => ChainOf(heap', frame') = Tail(ChainOf(heap, frame))
         /\ ev'.act \in Decoding \ {"Call", "Return"} =>
              ChainOf(heap', frame') = ChainOf(heap, frame)]_vars

\* ---------------------------------------------------------------- the stack

\* the deepest stack of the blocks below
MaxDepth == 3

\* LOAD_LOCAL_N 0 .. LOAD_LOCAL_N d-1: d pushes
Pushes(d) == [k \in 1 .. 2 * d |-> IF k % 2 = 1 THEN Opcode.LoadLocalN ELSE Z((k - 2) \div 2)]

\* the counts an instruction is given: within the stack, above it, and at and
\* above 256, where `n as u8` cuts them
Counts == { 0, 1, 2, 3, 4, 255, 256, 257, 258, 65536, -1 }

\* what follows the pushes: stack instructions, and the instructions that
\* take a count of words off the stack
StackBodies ==
    { << Opcode.Dup, Opcode.Drop >>, << Opcode.Drop, Opcode.Drop >>, << Opcode.Dup >>,
      << Opcode.Immediate, Z(9), Opcode.Drop >>, << Opcode.Return >>, << Opcode.Call >>,
      << Opcode.New >> }
      \cup { << Opcode.ReturnN >> \o Sint(n) : n \in Counts }
      \cup { << Opcode.CallN >> \o Sint(n) : n \in Counts }
      \cup { << Opcode.NewNN >> \o Sint(s) \o Sint(n) : s \in { 2, 64 }, n \in { 0, 1, 2, 3, 4 } }

\* one block per pool: d pushes, then the body, on a stack of m words
StackPools ==
    { Block(MaxDepth, m, Pushes(d) \o body) :
        m \in 1 .. MaxDepth, d \in 0 .. MaxDepth, body \in StackBodies }
StackArgLists ==
    { << 5, 6, 7 >>, << 0, 0, 0 >>, << 0, 1, 2 >>, << 3, 0, 1 >>, << 0, 256, 256 >>,
      << 0, 2, 257 >>, << 0, -1, -1 >>, << 2, 2, 3 >> }

\* a host that calls execute once on the block, without limits
ExecuteStack == ExecuteWith({"idle"}, {0}, StackArgLists, {MaxResults}, {0}, {0})

InitStack ==
    /\ pool \in StackPools
    /\ heap = NewHeap
    /\ timer = FALSE
    /\ now = 0
    /\ build \in {"debug", "release"}
    /\ status = "idle"
    /\ frame = Null
    /\ code = NoCode
    /\ skip = FALSE
    /\ cycles = 0
    /\ call = [offset |-> 0, args |-> << >>, max_cycles |-> 0, deadline |-> 0]
    /\ results = << >>
    /\ outcome = NoOutcome
    /\ ev = Event("Init", NoInstruction, Null, 0)

NextStack ==
    \/ ExecuteStack
    \/ Step

SpecStack == InitStack /\ [][NextStack]_vars

\* the i-th word of the stack of the current frame, from the bottom
StackWord(h, i) == h.w[StackIdx(frame, code) + i]

\* get_n(n) as the claim has it, in the current state
GetNChecked(n) ==
    LET r == get_n(heap, frame, code, n)
        s == sp(heap, frame)
    IN IF ULt(s, n)
         THEN r.k = "err" /\ r.e = "StackUnderflow" /\ r.h = heap
         ELSE /\ r.k = "ok"
              /\ sp(r.h, frame) = s - n
              /\ r.v = [i \in 1 .. n |-> StackWord(heap, s - n + i - 1)]

\* the step dispatches an instruction that takes a count of words off the
\* stack, its own operands are there, and the count is larger than the depth
\* under them
TakesTooMany ==
    /\ status = "running"
    /\ ev'.act \in Dispatched
    /\ \/ /\ ev'.ins.opcode \in {Opcode.Return, Opcode.ReturnN}
          /\ ReturnDepth(heap, frame, ev'.ins) >= 0
          /\ ULt(ReturnDepth(heap, frame, ev'.ins), ReturnCount(heap, frame, code, ev'.ins))
       \/ /\ ev'.ins.opcode \in {Opcode.Call, Opcode.CallN}
          /\ CallDepth >= 0
          /\ ULt(CallDepth, CallCount)
       \/ /\ ev'.ins.opcode \in {Opcode.New, Opcode.NewNN}
          /\ NewDepth >= 0
          /\ ULt(NewDepth, NewFill)

\* C33: get_n(n) fails StackUnderflow with sp unchanged whenever n > sp, for
\* every word n (n >= 256 included), and otherwise lowers sp by n and returns
\* the n words removed in push order; so RETURN, RETURN_N, CALL, CALL_N, NEW
\* and NEW_N_N with a count larger than the stack depth end in StackUnderflow,
\* never in a crash.
C33_GetN ==
    [][/\ status = "running" => \A n \in Counts : GetNChecked(n)
       /\ TakesTooMany => status' = "fault" /\ outcome'.code = "StackUnderflow"]_vars

\* h1 and h2 hold the same words, but for the pc/sp word of the frame and
\* for stack words of the frame at or above depth `top`
SameBelow(h1, h2, top) ==
    /\ h1.brk = h2.brk
    /\ h1.spans = h2.spans
    /\ \A i \in 0 .. HeapWords - 1 :
         (i # Idx(frame) + 2
            /\ ~(i >= StackIdx(frame, code) + top /\ i < StackIdx(frame, code) + code.max_stack))
           => h1.w[i] = h2.w[i]

\* the words pushed by put in the check below
PutWords == { 0, 9, -1, MinWord }

\* get in the current state, as the claim has it
GetChecked ==
    LET g == get(heap, frame, code)
        s == sp(heap, frame)
    IN /\ (g.k = "err") = (s = 0)
       /\ g.k \in {"ok", "err"}
       /\ g.k = "err" => g.e = "StackUnderflow" /\ g.h = heap
       /\ g.k = "ok" => /\ sp(g.h, frame) = s - 1
                        /\ pc(g.h, frame) = pc(heap, frame)
                        /\ g.v = StackWord(heap, s - 1)
                        /\ SameBelow(heap, g.h, s)

\* put(w) in the current state, as the claim has it, and the get after it
PutChecked(w) ==
    LET p == put(heap, frame, code, w)
        s == sp(heap, frame)
        g == get(p.h, frame, code)
    IN /\ (p.k = "err") = (s = code.max_stack)
       /\ p.k \in {"ok", "err"}
       /\ p.k = "err" => p.e = "StackOverflow" /\ p.h = heap
       /\ p.k = "ok" => /\ sp(p.h, frame) = s + 1
                        /\ pc(p.h, frame) = pc(heap, frame)
                        /\ StackWord(p.h, s) = w
                        /\ SameBelow(heap, p.h, s)
                        /\ g.k = "ok"
                        /\ g.v = w
                        /\ sp(g.h, frame) = s
                        /\ SameBelow(heap, g.h, s)

\* the words of the stack of the current frame, bottom first
StackOf(h) == [i \in 1 .. sp(h, frame) |-> StackWord(h, i - 1)]

\* C34: get fails StackUnderflow exactly when sp = 0 and put fails
\* StackOverflow exactly when sp = max_stack, a failing get or put changes
\* nothing; a put(w) that succeeds raises sp by one and stores w at the old
\* top, a get that succeeds lowers sp by one and returns the word at the new
\* sp, so put(w) then get returns w and restores the stack.  Stated of get
\* and put in every state of a running frame, and of the steps that push
\* (IMMEDIATE) and pop (DROP).
C34_GetPut ==
    [][/\ status = "running" => GetChecked /\ \A w \in PutWords : PutChecked(w)
       /\ (status = "running" /\ ev'.act \in Dispatched /\ ev'.ins.opcode = Opcode.Immediate) =>
            IF sp(heap, frame) = code.max_stack
              THEN status' = "fault" /\ outcome'.code = "StackOverflow" /\ heap' = heap
              ELSE /\ status' = "running"
                   /\ StackOf(heap') = Append(StackOf(heap), ev'.ins.n1)
       /\ (status = "running" /\ ev'.act \in Dispatched /\ ev'.ins.opcode = Opcode.Drop) =>
            IF sp(heap, frame) = 0
              THEN status' = "fault" /\ outcome'.code = "StackUnderflow" /\ heap' = heap
              ELSE /\ status' = "running"
                   /\ StackOf(heap') = SubSeq(StackOf(heap), 1, sp(heap, frame) - 1)]_vars

\* the stack after a DROP executed in heap h, << Null >> \o the stack when
\* the DROP fails
Dropped(h) ==
    LET r == execute_one(h, frame, code, Instruction(0, Opcode.Drop, 0, 0)) IN
    IF r.k = "ok" /\ r.v = Continue THEN StackOf(r.h) ELSE << Null >> \o StackOf(r.h)

\* the step dispatches DUP on a stack of at least one word
DupStep ==
    /\ status = "running"
    /\ ev'.act \in Dispatched
    /\ ev'.ins.opcode = Opcode.Dup
    /\ sp(heap, frame) >= 1
    /\ sp(heap, frame) <= code.max_stack

\* C35 as stated: DUP then DROP on a stack of 1 to max_stack words leaves
\* the stack as it was, in depth and in contents.
C35_Original ==
    [][DupStep => status' = "running" /\ Dropped(heap') = StackOf(heap)]_vars

\* C35, amended: DUP then DROP on a stack of 1 to max_stack - 1 words leaves
\* the stack as it was, in depth and in contents (DUP leaves the top word
\* twice and DROP takes one off); on a full stack DUP fails StackOverflow
\* and changes nothing.
C35_DupDrop ==
    [][/\ DupStep =>
            IF sp(heap, frame) < code.max_stack
              THEN /\ status' = "running"
                   /\ frame' = frame
                   /\ StackOf(heap') = Append(StackOf(heap), StackWord(heap, sp(heap, frame) - 1))
                   /\ Dropped(heap') = StackOf(heap)
              ELSE status' = "fault" /\ outcome'.code = "StackOverflow" /\ heap' = heap
       /\ (/\ status = "running"
           /\ ev.act = "Continue"
           /\ ev.ins.opcode = Opcode.Dup
           /\ ev'.act \in Dispatched
           /\ ev'.ins.opcode = Opcode.Drop) =>
            /\ status' = "running"
            /\ StackOf(heap') = Dropped(heap)
            /\ StackOf(heap') = SubSeq(StackOf(heap), 1, sp(heap, frame) - 1)]_vars

\* C35's case: DUP on two of three words, then DROP, and the two words are
\* the stack again
C35_Witness ==
    /\ status = "running"
    /\ ev.act = "Continue"
    /\ ev.ins.opcode = Opcode.Drop
    /\ ev.ins.offset = 5
    /\ Byte(code, 4) = Opcode.Dup
    /\ code.max_stack = MaxDepth
    /\ StackOf(heap) = << 5, 6 >>

\* --------------------------------------------------- code blocks off the grid

\* IMMEDIATE 5, IMMEDIATE 16, CALL_N 1, RETURN_N 1: a call of the block at
\* offset 16 with one argument, whose result is returned
CallsBytes ==
    << Opcode.Immediate, Z(5), Opcode.Immediate, Z(16), Opcode.CallN, Z(1), Opcode.ReturnN, Z(1) >>
\* a calling block as it lies in the pool (no locals, two stack words)
CallerBytes == << 0, 2, Len(CallsBytes), 0 >> \o CallsBytes
\* the three bytes in front of the caller at offset 3; with its local_count
\* byte they are what a header read at offset 0 finds
Pads == { << 0, 2, 8 >>, << 1, 2, 8 >>, << 0, 3, 6 >>, << 64, 0, 0 >>, << 0, 0, 200 >> }
\* callers at offsets 3 and 24, the callee at 16
AlignPools ==
    { pad \o CallerBytes \o << 0 >> \o Block(1, 1, << Opcode.LoadLocalN, Z(0), Opcode.ReturnN, Z(1) >>)
        \o CallerBytes : pad \in Pads }
AlignOffsets == { 3, 16, 24 }

\* a host that calls execute once on such a pool
ExecuteAlign ==
    ExecuteWith({"idle"}, AlignOffsets, { << >>, << 7 >> }, 0 .. MaxResults, {0, MaxCycles + 2}, {0})

InitAlign ==
    /\ pool \in AlignPools
    /\ heap = NewHeap
    /\ timer = FALSE
    /\ now = 0
    /\ build \in {"debug", "release"}
    /\ status = "idle"
    /\ frame = Null
    /\ code = NoCode
    /\ skip = FALSE
    /\ cycles = 0
    /\ call = [offset |-> 0, args |-> << >>, max_cycles |-> 0, deadline |-> 0]
    /\ results = << >>
    /\ outcome = NoOutcome
    /\ ev = Event("Init", NoInstruction, Null, 0)

NextAlign ==
    \/ ExecuteAlign
    \/ Step

SpecAlign == InitAlign /\ [][NextAlign]_vars

\* the code block found from the code_offset stored in frame f
Rederived(h, f) == get_code(h, addr_from_offset(code_offset(h, f)))

\* C36: for every code address that frame creation accepts, aligned to 4
\* bytes or not, the code block found again from the frame's code_offset when
\* a callee returns to it is the block the frame was created from: when a
\* frame makes a call, its stored code_offset leads back to the code it is
\* running, and a return to it goes on in that code.
C36_Rederive ==
    [][/\ (status = "running" /\ ev'.act = "Call" /\ status' = "running") =>
            /\ Rederived(heap', frame).k = "ok"
            /\ Rederived(heap', frame).v = code
            /\ Rederived(heap', frame').k = "ok"
            /\ Rederived(heap', frame').v = code'
       /\ (status = "running" /\ ev'.act = "Return" /\ up_frame(heap, frame) # Null
             /\ sp(heap, frame) >= ReturnDepth(heap, frame, ev'.ins)
             /\ ReturnDepth(heap, frame, ev'.ins) >= 0
             /\ ReturnCount(heap, frame, code, ev'.ins) = 1) =>
            /\ status' = "running"
            /\ code'.base = PoolBase + call.offset + 4]_vars

\* ------------------------------------------------------ pc and sp at a fault

\* the words a handler of execute_one takes with get() before the first of
\* its tests that can fail otherwise than by StackUnderflow
HandlerGets(op) ==
    CASE op \in {Opcode.Dup, Opcode.Drop, Opcode.Size, Opcode.If, Opcode.LoadSlotN, Opcode.Unary, Opcode.CallN,
                 Opcode.Return} -> 1
      [] op \in {Opcode.Call, Opcode.New, Opcode.LoadSlot, Opcode.StoreSlotN, Opcode.Binary} -> 2
      [] op = Opcode.StoreSlot -> 3
      [] OTHER -> 0

\* the depth of the running frame after the get()s of the handler that
\* came before its fault: a get() of an empty stack takes nothing
AfterGets(op) ==
    IF sp(heap, frame) > HandlerGets(op) THEN sp(heap, frame) - HandlerGets(op) ELSE 0

\* a fault of this step raised by the handler or by the arm of its disposition
DispatchFault == ev'.act \in Dispatched /\ status' = "fault"

DupOverflow == ev'.ins.opcode = Opcode.Dup /\ outcome'.code = "StackOverflow"

FaultyBodies ==
    { << Opcode.Break >>, << 15 >>, << 255 >>, << Opcode.Jump, Z(50) >>, << Opcode.Drop >>,
      << Opcode.Dup >>, << Opcode.StoreSlot >>, << Opcode.Return >>, << Opcode.CallN, Z(0) >>,
      << Opcode.LoadLocalN, Z(9) >>, << Opcode.NewNN, Z(1), Z(2) >> }
\* instructions cut short by the end of the bytecode
CutBodies ==
    { << Opcode.Immediate >>, << Opcode.Immediate, 128 >>, << Opcode.NewNN, Z(1) >>,
      << Opcode.Jump >> }
\* LOAD_LOCAL_N 0, IF, then the instruction in question; the whole ones are
\* followed by IMMEDIATE 7, RETURN_N 1
SkipPools ==
    { Block(1, 2, << Opcode.LoadLocalN, Z(0), Opcode.If >> \o body
                    \o << Opcode.Immediate, Z(7), Opcode.ReturnN, Z(1) >>) : body \in FaultyBodies }
      \cup { Block(1, 2, << Opcode.LoadLocalN, Z(0), Opcode.If >> \o body) :
               body \in CutBodies \cup { << >> } }

\* a host that calls execute once with a word for IF to test, with and
\* without a cycle limit and a deadline
ExecuteSkip ==
    ExecuteWith({"idle"}, {0}, { << 0 >>, << 1 >> }, {MaxResults}, 0 .. MaxCycles, 0 .. MaxTime)

InitSkip ==
    /\ pool \in SkipPools
    /\ heap = NewHeap
    /\ timer \in BOOLEAN
    /\ now \in IF timer THEN 0 .. 1 ELSE {0}
    /\ build \in {"debug", "release"}
    /\ status = "idle"
    /\ frame = Null
    /\ code = NoCode
    /\ skip = FALSE
    /\ cycles = 0
    /\ call = [offset |-> 0, args |-> << >>, max_cycles |-> 0, deadline |-> 0]
    /\ results = << >>
    /\ outcome = NoOutcome
    /\ ev = Event("Init", NoInstruction, Null, 0)

NextSkip ==
    \/ ExecuteSkip
    \/ Step

SpecSkip == InitSkip /\ [][NextSkip]_vars

\* C38: an iteration that finds the skip flag set still passes the end-of-code
\* test, the deadline and cycle tests and decode_next: it can end the call
\* with TimeExceeded, CyclesExceeded or TruncatedCode (when the instruction is
\* cut short), and otherwise passes over the instruction without dispatching
\* it: an unknown opcode, BREAK, an out-of-range JUMP or an instruction that
\* underflows the stack in that position raises nothing and changes nothing
\* but pc.
C38_Discard ==
    [][(status = "running" /\ skip /\ ev' # ev) =>
         LET d == decode_next(heap, code, pc(heap, frame)) IN
         /\ ev'.act \in {"FallOff", "TimeExceeded", "CyclesExceeded", "Truncated", "Skipped"}
         /\ status' = "fault" =>
              outcome'.code \in {"TimeExceeded", "CyclesExceeded", "TruncatedCode"}
         /\ ev'.act \in Decoding =>
              IF d.k = "ok"
                THEN /\ ev'.act = "Skipped"
                     /\ status' = "running"
                     /\ outcome' = outcome /\ results' = results
                     /\ frame' = frame /\ code' = code
                     /\ SameButPcSp(heap, heap', frame)
                     /\ sp(heap', frame) = sp(heap, frame)
                     /\ pc(heap', frame) = d.v[2]
                ELSE /\ ev'.act = "Truncated"
                     /\ status' = "fault"
                     /\ outcome' = ErrOutcome("TruncatedCode", frame)
                     /\ heap' = heap]_vars

\* an instruction whose dispatch would have faulted was passed over and the
\* call went on to return the 7 pushed after it
C38_Witness ==
    /\ status = "returned"
    /\ ev.act = "Return"
    /\ results[1] = 7
    /\ call.args = << 0 >>
    /\ Byte(code, 3) \in {Opcode.Break, 15, Opcode.Jump, Opcode.Drop}

\* ------------------------------------------------------ who writes results

\* `results` as the host handed it to execute
Untouched == [i \in 1 .. Len(results') |-> Stale]

\* C39: results is written only by a RETURN/RETURN_N executed in the root
\* frame: an iteration of the loop changes it only when the root frame returns
\* and the call ends; when execute ends with a fault of any kind, or with 0
\* because a frame ran off the end of its bytecode, every slot holds the value
\* it had when execute was called.
C39_Results ==
    [][/\ (status = "running" /\ results' # results) =>
            /\ ev'.act = "Return"
            /\ up_frame(heap, frame) = Null
            /\ status' = "returned"
       /\ (status' = "fault" \/ ev'.act = "FallOff") => results' = Untouched]_vars

\* a call that handed over two result slots has ended with a fault in its
\* root frame after a callee had been given a frame of its own
C39_Witness ==
    /\ status = "fault"
    /\ ev.act \in Dispatched
    /\ Len(results) = MaxResults
    /\ results = [i \in 1 .. MaxResults |-> Stale]
    /\ up_frame(heap, frame) = Null
    /\ Cardinality(SpansAt(heap, frame)) = 1
    /\ heap.brk > Idx(frame) + FRAME_HEADER_WORDS + code.local_count + code.max_stack

\* -------------------------------------------------- programs that never end

\* IMMEDIATE 12, CALL_N 0, JUMP 0 and, at offset 12, RETURN_N 0: a call and a
\* return, for ever
calls_forever ==
    Block(0, 1, << Opcode.Immediate, Z(12), Opcode.CallN, Z(0), Opcode.Jump, Z(0) >>)
      \o Block(0, 0, << Opcode.ReturnN, Z(0) >>)
\* the same with an argument and a result, which the caller drops
passes_forever ==
    Block(0, 2, << Opcode.Immediate, Z(5), Opcode.Immediate, Z(16), Opcode.CallN, Z(1),
                   Opcode.Drop, Opcode.Jump, Z(0) >>)
      \o Block(1, 1, << Opcode.LoadLocalN, Z(0), Opcode.ReturnN, Z(1) >>)
\* NEW_N_N slots 0, DROP, JUMP 0: an object, for ever
news_forever(slots) ==
    Block(0, 1, << Opcode.NewNN, Z(slots), Z(0), Opcode.Drop, Opcode.Jump, Z(0) >>)
\* IMMEDIATE 2, IMMEDIATE 0, NEW, DROP, JUMP 0
fills_forever ==
    Block(0, 2, << Opcode.Immediate, Z(2), Opcode.Immediate, Z(0), Opcode.New,
                   Opcode.Drop, Opcode.Jump, Z(0) >>)
ForeverPools ==
    { calls_forever, passes_forever, news_forever(1), news_forever(5), fills_forever }

\* a host that calls execute without a cycle limit and without a deadline,
\* again and again once a call has ended
ExecuteForever ==
    ExecuteWith({"idle", "fault", "returned"}, {0}, { << >> }, {0}, {0}, {0})

InitForever ==
    /\ pool \in ForeverPools
    /\ heap = NewHeap
    /\ timer = FALSE
    /\ now = 0
    /\ build \in {"debug", "release"}
    /\ status = "idle"
    /\ frame = Null
    /\ code = NoCode
    /\ skip = FALSE
    /\ cycles = 0
    /\ call = [offset |-> 0, args |-> << >>, max_cycles |-> 0, deadline |-> 0]
    /\ results = << >>
    /\ outcome = NoOutcome
    /\ ev = Event("Init", NoInstruction, Null, 0)

NextForever ==
    \/ ExecuteForever
    \/ Step

\* the loop of execute does not stop of itself: while a call is running its
\* next iteration is taken. This is weak fairness of Step, WF_vars(Step),
\* written out with `status = "running"` for ENABLED <<Step>>_vars: the loop
\* has an iteration to take exactly while the call is running
LoopGoesOn == []<>(status # "running") \/ []<><<Step>>_vars

SpecForever == InitForever /\ [][NextForever]_vars /\ LoopGoesOn

\* every allocation of h1 is still an allocation of h2 and the first block
\* never handed out has not moved down
NothingFreed(h1, h2) ==
    /\ h2.brk >= h1.brk
    /\ Len(h2.spans) >= Len(h1.spans)
    /\ \A i \in 1 .. Len(h1.spans) : h2.spans[i] = h1.spans[i]

\* C40: no frame and no object is released during or between execute calls:
\* heap usage never goes down, a return from a callee leaves the heap's
\* allocations as they were, and so a program that calls and returns, or
\* makes objects, for ever, run without cycle limit and deadline, ends with
\* OutOfMemory.
C40_Exhausts ==
    /\ [][/\ NothingFreed(heap, heap')
          /\ ev'.act = "Return" => heap'.brk = heap.brk /\ heap'.spans = heap.spans]_vars
    /\ (status = "running") ~> (status = "fault" /\ outcome.code = "OutOfMemory")

\* a call has ended with OutOfMemory at a CALL_N of the root frame, the heap
\* full of the frames of callees that have returned
C40_Witness ==
    /\ status = "fault"
    /\ outcome.code = "OutOfMemory"
    /\ ev.act = "Call"
    /\ up_frame(heap, frame) = Null
    /\ Len(heap.spans) >= HeapBlocks - 1
    /\ heap.brk = HeapWords

====
